---------------------------- MODULE Spec2Model ----------------------------
(***************************************************************************)
(* A model of loom.ino, the controller of an 8-shaft loom: the persistent  *)
(* store (EEPROM records), the pattern model (tie-up matrix and treadle    *)
(* sequence), the shaft state machine, the step scheduler and the          *)
(* calibration protocol.                                                   *)
(*                                                                         *)
(* The program is one thread.  A state of the model is the program's       *)
(* memory, the EEPROM and the motor outputs at a point where the program   *)
(* waits for an input event, or between two passes of do_steps.  The       *)
(* cursors of the editors, which only select the cell an edit applies to,  *)
(* are inputs of the edit actions.  The text and digit displays, the LEDs, *)
(* last_filename, unsaved_file and shuttle_count are display state and are *)
(* left out.                                                               *)
(***************************************************************************)
EXTENDS Integers, Sequences, FiniteSets, TLC

(***************************************************************************)
(* Build parameters, scaled down.                                          *)
(***************************************************************************)
NUM_SHAFTS == 3
NUM_TREADLES == 2
MAX_SEQUENCE == 3
MAX_FILENAME == 2
EEPROM_SIZE == 138
NOMINAL_STEPS == 2
uSTEPS_PER_STEP == 1

UNUSED_SEQ == 255

SHAFT_CENTER == 0
SHAFT_UP == 1
SHAFT_DOWN == 2

Byte == 0..255
Shafts == 0..(NUM_SHAFTS - 1)
Treadles == 0..(NUM_TREADLES - 1)
SeqPos == 0..(MAX_SEQUENCE - 1)

(***************************************************************************)
(* Record sizes, as sizeof computes them on the 32-bit target: int is 4    *)
(* bytes and a struct with an int member is padded to a multiple of 4.     *)
(***************************************************************************)
CONFIG_HDR_SIZE == 28
SHAFT_SIZE == 16
FILE_HDR_SIZE == 4 * ((4 + 4 + 1 + (MAX_FILENAME + 1) + 3) \div 4)
CONFIG_SIZE == CONFIG_HDR_SIZE + NUM_SHAFTS * SHAFT_SIZE
TIEUP_SIZE == NUM_SHAFTS * NUM_TREADLES
FILE_SIZE == FILE_HDR_SIZE + TIEUP_SIZE + MAX_SEQUENCE
\* MAX_FILES if the division rounded up
MAX_FILES_rounded_up == (EEPROM_SIZE - CONFIG_SIZE + FILE_SIZE - 1) \div FILE_SIZE

MAX_FILES == (EEPROM_SIZE - CONFIG_SIZE) \div FILE_SIZE

Addrs == 0..(EEPROM_SIZE - 1)

\* "cfg" and "fil" with their terminating NUL: the 4 bytes of an id field
CFG_ID == <<99, 102, 103, 0>>
FIL_ID == <<102, 105, 108, 0>>
BLANK == 32

(***************************************************************************)
(* Byte-level helpers.                                                     *)
(***************************************************************************)
Zeros(n) == [i \in 1..n |-> 0]

\* a 32-bit int as its 4 bytes, little-endian two's complement
LE4(n) ==
    LET m == IF n >= 0 THEN n ELSE (n + 2147483647) + 1
        top == (m \div 16777216) + (IF n >= 0 THEN 0 ELSE 128)
    IN  << m % 256, (m \div 256) % 256, (m \div 65536) % 256, top >>

\* the 32-bit int held in 4 little-endian bytes
FromLE4(b) ==
    LET low == b[1] + 256 * b[2] + 65536 * b[3]
    IN  IF b[4] < 128 THEN low + 16777216 * b[4]
        ELSE ((low + 16777216 * (b[4] - 128)) - 2147483647) - 1

RECURSIVE SumBytes(_)
SumBytes(s) == IF s = <<>> THEN 0 ELSE Head(s) + SumBytes(Tail(s))

\* s with the bytes of t written from (1-based) index at
Overlay(s, at, t) ==
    SubSeq(s, 1, at - 1) \o t \o SubSeq(s, at + Len(t), Len(s))

\* the EEPROM is the sequence of its bytes: address a is element a + 1
read_EEPROM(ee, fromloc, count) == SubSeq(ee, fromloc + 1, fromloc + count)

write_EEPROM(ee, toloc, bytes) == Overlay(ee, toloc + 1, bytes)


(***************************************************************************)
(* Layout of the structures as bytes.  shaft_status[s] is                  *)
(* {shaft_position, steps_to_down, steps_to_up, steps_to_move}, 4 bytes    *)
(* each; tieup is stored row by row, one byte per bool.                    *)
(***************************************************************************)
ShaftField(st, f) ==
    CASE f = 0 -> st.shaft_position
      [] f = 1 -> st.steps_to_down
      [] f = 2 -> st.steps_to_up
      [] OTHER -> st.steps_to_move

ShaftStatusBytes(ss) ==
    [i \in 1..(NUM_SHAFTS * SHAFT_SIZE) |->
        LE4(ShaftField(ss[(i - 1) \div SHAFT_SIZE], ((i - 1) % SHAFT_SIZE) \div 4))[((i - 1) % 4) + 1]]

ShaftStatusFromBytes(b) ==
    [s \in Shafts |->
        [shaft_position |-> FromLE4(SubSeq(b, SHAFT_SIZE * s + 1, SHAFT_SIZE * s + 4)),
         steps_to_down  |-> FromLE4(SubSeq(b, SHAFT_SIZE * s + 5, SHAFT_SIZE * s + 8)),
         steps_to_up    |-> FromLE4(SubSeq(b, SHAFT_SIZE * s + 9, SHAFT_SIZE * s + 12)),
         steps_to_move  |-> FromLE4(SubSeq(b, SHAFT_SIZE * s + 13, SHAFT_SIZE * s + 16))]]

TieupBytes(tu) ==
    [i \in 1..TIEUP_SIZE |-> tu[(i - 1) \div NUM_TREADLES][(i - 1) % NUM_TREADLES]]

TieupFromBytes(b) == [s \in Shafts |-> [t \in Treadles |-> b[s * NUM_TREADLES + t + 1]]]

SeqBytes(ts) == [i \in 1..MAX_SEQUENCE |-> ts[i - 1]]

SeqFromBytes(b) == [p \in SeqPos |-> b[p + 1]]

\* config_hdr: id[4], size, numshafts, numtreadles, maxsequence, lastfilenum,
\* tr_seq_pos, unused[15]  (1-based byte offsets)
CfgId(cfg) == SubSeq(cfg, 1, 4)
CfgSize(cfg) == FromLE4(SubSeq(cfg, 5, 8))
OFF_LASTFILENUM == 12
OFF_TR_SEQ_POS == 13

\* file_hdr: id[4], size, checksum, filename[MAX_FILENAME + 1], padding
FhId(fh) == SubSeq(fh, 1, 4)
FhSize(fh) == FromLE4(SubSeq(fh, 5, 8))
OFF_CHECKSUM == 9
OFF_FILENAME == 10
Filename(fh) == SubSeq(fh, OFF_FILENAME, OFF_FILENAME + MAX_FILENAME)

(***************************************************************************)
(* The program's memory as one record m, so that the routines compose as   *)
(* the code calls them: ee the EEPROM, cfg config_hdr, fh file_hdr, ss     *)
(* shaft_status, tu tieup, ts treadle_sequence, sz sequence_size, and halt *)
(* the message of the assertion that stopped the program ("" while it      *)
(* runs).  A routine applied to a halted memory does nothing.              *)
(***************************************************************************)
assert(m, test, msg) == IF m.halt = "" /\ ~test THEN [m EXCEPT !.halt = msg] ELSE m

\* name is filename[0..MAX_FILENAME] as a sequence; name[i + 1] is filename[i]
LastSolid(name) ==
    LET solid == {i \in 0..(MAX_FILENAME - 1) : name[i + 1] # BLANK /\ name[i + 1] # 0}
    IN  IF solid = {} THEN -1 ELSE CHOOSE i \in solid : \A j \in solid : j <= i

cleanup_filename(name) ==
    LET k == LastSolid(name)     \* where the first loop stops
    IN  [i \in 1..(MAX_FILENAME + 1) |->
            IF i - 1 > k THEN 0                      \* NUL ending, trailing blanks and NULs
            ELSE IF name[i] = 0 THEN BLANK           \* embedded NULs
            ELSE name[i]]

RECURSIVE CompactFrom(_, _, _)
\* the loop of cleanup_treadle_sequence from rpos on; the result is <<buffer, wpos>>
CompactFrom(ts, rpos, wpos) ==
    IF rpos >= MAX_SEQUENCE THEN <<ts, wpos>>
    ELSE IF ts[rpos] # UNUSED_SEQ
         THEN CompactFrom([ts EXCEPT ![wpos] = ts[rpos]], rpos + 1, wpos + 1)
         ELSE CompactFrom(ts, rpos + 1, wpos)

\* cleanup_treadle_sequence if it counted the entries without moving them
cleanup_treadle_sequence_counted(m) ==
    IF m.halt # "" THEN m
    ELSE [m EXCEPT !.sz = CompactFrom(m.ts, 0, 0)[2]]

cleanup_treadle_sequence(m) ==
    IF m.halt # "" THEN m
    ELSE LET r == CompactFrom(m.ts, 0, 0)
         IN  [m EXCEPT !.ts = r[1], !.sz = r[2]]

\* write_config if it wrote config_hdr and not the shaft_status array
write_config_hdr_only(m) ==
    IF m.halt # "" THEN m
    ELSE LET hdr == CFG_ID \o LE4(CONFIG_SIZE)
                    \o << NUM_SHAFTS % 256, NUM_TREADLES % 256, MAX_SEQUENCE % 256,
                          m.cfg[OFF_LASTFILENUM], m.cfg[OFF_TR_SEQ_POS] >>
                    \o Zeros(15)
         IN  [m EXCEPT !.cfg = hdr, !.ee = write_EEPROM(m.ee, 0, hdr)]

write_config(m) ==
    IF m.halt # "" THEN m
    ELSE LET hdr == CFG_ID \o LE4(CONFIG_SIZE)
                    \o << NUM_SHAFTS % 256, NUM_TREADLES % 256, MAX_SEQUENCE % 256,
                          m.cfg[OFF_LASTFILENUM], m.cfg[OFF_TR_SEQ_POS] >>
                    \o Zeros(15)
             ee1 == write_EEPROM(m.ee, 0, hdr)
         IN  [m EXCEPT !.cfg = hdr,
                       !.ee = write_EEPROM(ee1, CONFIG_HDR_SIZE, ShaftStatusBytes(m.ss))]

FileLoc(filenum) == CONFIG_SIZE + filenum * FILE_SIZE

write_file(m, filenum) ==
    LET m0 == assert(m, filenum < MAX_FILES, "bad write_file")
    IN  IF m0.halt # "" THEN m0
        ELSE LET fh0 == Overlay(m0.fh, 1, FIL_ID \o LE4(FILE_SIZE) \o <<0>>)
                 checksum == SumBytes(fh0)
                 fh1 == [fh0 EXCEPT ![OFF_CHECKSUM] = (256 - (checksum % 256)) % 256]
                 ee1 == write_EEPROM(m0.ee, FileLoc(filenum), fh1)
                 ee2 == write_EEPROM(ee1, FileLoc(filenum) + FILE_HDR_SIZE, TieupBytes(m0.tu))
                 ee3 == write_EEPROM(ee2, FileLoc(filenum) + FILE_HDR_SIZE + TIEUP_SIZE,
                                     SeqBytes(m0.ts))
             IN  [m0 EXCEPT !.fh = fh1, !.ee = ee3,
                            !.cfg = [m0.cfg EXCEPT ![OFF_LASTFILENUM] = filenum % 256]]

read_file_hdr(m, filenum) ==
    LET m0 == assert(m, filenum < MAX_FILES, "bad read_file_hdr")
    IN  IF m0.halt # "" THEN m0
        ELSE LET fh0 == read_EEPROM(m0.ee, FileLoc(filenum), FILE_HDR_SIZE)
                 m1 == [m0 EXCEPT !.fh = fh0]
             IN  IF FhId(fh0) = FIL_ID
                 THEN LET m2 == assert(m1, FhSize(fh0) = FILE_SIZE, "bad file size")
                          m3 == assert(m2, SumBytes(fh0) % 256 = 0, "bad file checksum")
                      IN  IF m3.halt # "" THEN m3
                          ELSE [m3 EXCEPT !.fh = Overlay(fh0, OFF_FILENAME,
                                                         cleanup_filename(Filename(fh0)))]
                 ELSE [m1 EXCEPT !.fh = Overlay(Overlay(fh0, 1, FIL_ID \o LE4(FILE_SIZE)),
                                                OFF_FILENAME, Zeros(MAX_FILENAME + 1))]

read_file_data(m, filenum) ==
    LET m0 == assert(m, filenum < MAX_FILES, "bad read_file_data")
    IN  IF m0.halt # "" THEN m0
        ELSE LET loc == FileLoc(filenum) + FILE_HDR_SIZE
                 m1 == [m0 EXCEPT
                          !.tu = TieupFromBytes(read_EEPROM(m0.ee, loc, TIEUP_SIZE)),
                          !.ts = SeqFromBytes(read_EEPROM(m0.ee, loc + TIEUP_SIZE, MAX_SEQUENCE))]
                 m2 == cleanup_treadle_sequence(m1)
             IN  [m2 EXCEPT !.cfg = [m2.cfg EXCEPT ![OFF_LASTFILENUM] = filenum % 256]]

SchemaMatches(cfg) ==
    /\ cfg[9] = NUM_SHAFTS % 256
    /\ cfg[10] = NUM_TREADLES % 256
    /\ cfg[11] = MAX_SEQUENCE % 256

\* read_config as it would be without the consistency assertion
read_config_unchecked(m) ==
    IF m.halt # "" THEN m
    ELSE LET cfg0 == read_EEPROM(m.ee, 0, CONFIG_HDR_SIZE)
             m1 == [m EXCEPT !.cfg = cfg0]
         IN  IF CfgId(cfg0) = CFG_ID
             THEN LET m2 == assert(m1, CfgSize(cfg0) = CONFIG_SIZE, "bad config size")
                  IN  IF m2.halt # "" THEN m2
                      ELSE [m2 EXCEPT !.ss = ShaftStatusFromBytes(
                                read_EEPROM(m2.ee, CONFIG_HDR_SIZE, NUM_SHAFTS * SHAFT_SIZE))]
             ELSE write_file(write_config(m1), 0)

\* read_config if it rewrote a bad config record and left file 0 alone
read_config_config_only(m) ==
    IF m.halt # "" THEN m
    ELSE LET cfg0 == read_EEPROM(m.ee, 0, CONFIG_HDR_SIZE)
             m1 == [m EXCEPT !.cfg = cfg0]
         IN  IF CfgId(cfg0) = CFG_ID
             THEN LET m2 == assert(m1, CfgSize(cfg0) = CONFIG_SIZE, "bad config size")
                      m3 == assert(m2, SchemaMatches(cfg0), "inconsistent config")
                  IN  IF m3.halt # "" THEN m3
                      ELSE [m3 EXCEPT !.ss = ShaftStatusFromBytes(
                                read_EEPROM(m3.ee, CONFIG_HDR_SIZE, NUM_SHAFTS * SHAFT_SIZE))]
             ELSE write_config(m1)

read_config(m) ==
    IF m.halt # "" THEN m
    ELSE LET cfg0 == read_EEPROM(m.ee, 0, CONFIG_HDR_SIZE)
             m1 == [m EXCEPT !.cfg = cfg0]
         IN  IF CfgId(cfg0) = CFG_ID
             THEN LET m2 == assert(m1, CfgSize(cfg0) = CONFIG_SIZE, "bad config size")
                      m3 == assert(m2, SchemaMatches(cfg0), "inconsistent config")
                  IN  IF m3.halt # "" THEN m3
                      ELSE [m3 EXCEPT !.ss = ShaftStatusFromBytes(
                                read_EEPROM(m3.ee, CONFIG_HDR_SIZE, NUM_SHAFTS * SHAFT_SIZE))]
             ELSE write_file(write_config(m1), 0)

\* erase_EEPROM once the operator has answered yes
erase_EEPROM(m) == IF m.halt # "" THEN m ELSE [m EXCEPT !.ee = Zeros(EEPROM_SIZE)]

(***************************************************************************)
(* Memory at power-on: the static initialisers of the globals.             *)
(***************************************************************************)
InitShaftStatus ==
    [s \in Shafts |-> [shaft_position |-> SHAFT_CENTER, steps_to_down |-> NOMINAL_STEPS,
                       steps_to_up |-> NOMINAL_STEPS, steps_to_move |-> 0]]

\* "basic weave": tieup[0][0] and tieup[1][1], everything else 0
InitTieup == [s \in Shafts |-> [t \in Treadles |-> IF s = t /\ s < 2 THEN 1 ELSE 0]]

\* treadle_sequence as setup sets it: "tabby"
TabbySequence == [p \in SeqPos |-> IF p < 2 THEN p ELSE UNUSED_SEQ]

PowerOnMemory(ee) ==
    [ee |-> ee, cfg |-> Zeros(CONFIG_HDR_SIZE), fh |-> Zeros(FILE_HDR_SIZE),
     ss |-> InitShaftStatus, tu |-> InitTieup, ts |-> [p \in SeqPos |-> 0], sz |-> 0,
     halt |-> ""]

\* setup up to and including read_config; erase is whether PB4 was held at
\* power-up and the erase confirmed
SetupConfig(m, erase) ==
    LET m0 == [m EXCEPT !.ts = TabbySequence, !.sz = 2]
        m1 == IF erase THEN erase_EEPROM(m0) ELSE m0
    IN  read_config(m1)

setup(m, erase) ==
    LET m2 == SetupConfig(m, erase)
    IN  IF m2.halt = "" /\ m2.cfg[OFF_LASTFILENUM] < MAX_FILES
        THEN read_file_data(read_file_hdr(m2, m2.cfg[OFF_LASTFILENUM]), m2.cfg[OFF_LASTFILENUM])
        ELSE m2


(***************************************************************************)
(* Bounds of the exploration.                                              *)
(***************************************************************************)
MaxEdits == 2        \* edits of the tie-up and the sequence
MaxLetters == 1      \* letter changes while a file name is edited
MaxSaves == 1        \* files saved from the menu
MaxCorrupt == 1      \* bytes of the store altered while the power is off

\* the characters a file name is made of (changeletter's filenamechars, cut to 3)
filenamechars == <<32, 65, 66>>

(***************************************************************************)
(* State.                                                                  *)
(***************************************************************************)
VARIABLES
    pc,                 \* where the program waits: "off", "loop", "tieups", "sequence",
                        \* "files", "weave", "cal_center", "cal_down", "cal_up", "steps", "halt"
    halt_msg,           \* message of the failed assertion once pc = "halt"
    eeprom,             \* the EEPROM, byte by byte
    config_hdr,         \* the bytes of config_hdr
    file_hdr,           \* the bytes of file_hdr
    shaft_status,
    tieup,
    treadle_sequence,
    sequence_size,
    ls,                 \* locals of loadsave_files
    wv,                 \* locals of weave
    cal,                \* locals of do_calibration and get_calibration
    ret,                \* the caller do_steps returns to
    hw,                 \* MOTOR_ENB, MOTOR_DIR and MOTOR_FAULT
    pulses,             \* per shaft: net step pulses (up minus down) since its center
    sched,              \* do_steps under way: steps_to_move and pulses at its entry,
                        \* passes done, shaft_position before the motion was queued
    ev,                 \* the operation the last step performed
    saved,              \* per slot: the pattern that was live when write_file wrote it
    altered,            \* address of the byte altered since it was written, or -1
    oob,                \* an array has been indexed outside its bounds
    used                \* edits, letters, saves and corruptions so far

memVars == <<eeprom, config_hdr, file_hdr, shaft_status, tieup, treadle_sequence, sequence_size>>
motionVars == <<wv, cal, ret, hw, pulses, sched>>
vars == <<pc, halt_msg, memVars, ls, motionVars, ev, saved, altered, oob, used>>

Mem ==
    [ee |-> eeprom, cfg |-> config_hdr, fh |-> file_hdr, ss |-> shaft_status,
     tu |-> tieup, ts |-> treadle_sequence, sz |-> sequence_size, halt |-> ""]

\* the program continues at target with memory m, or has halted in m
Commit(m, target) ==
    /\ eeprom' = m.ee
    /\ config_hdr' = m.cfg
    /\ file_hdr' = m.fh
    /\ shaft_status' = m.ss
    /\ tieup' = m.tu
    /\ treadle_sequence' = m.ts
    /\ sequence_size' = m.sz
    /\ halt_msg' = m.halt
    /\ pc' = IF m.halt = "" THEN target ELSE "halt"

Slots == 0..(MAX_FILES - 1)
NoPattern == [name |-> <<>>, tu |-> <<>>, ts |-> <<>>]
Pattern(m) == [name |-> Filename(m.fh), tu |-> m.tu, ts |-> m.ts]

LsIdle == [save |-> FALSE, filenum |-> 0, filenum_on_top |-> 0, charnum |-> 0, row_select |-> TRUE]
\* treadle is the argument of the do_treadle under way, last the argument of
\* the do_treadle before it in this weave session (-1: none)
WvIdle == [before_movement |-> TRUE, motors_on |-> FALSE, treadle |-> 0, last |-> -1]
SchedIdle ==
    [start |-> [s \in Shafts |-> 0], passes |-> 0, base |-> [s \in Shafts |-> 0],
     pos |-> [s \in Shafts |-> SHAFT_CENTER], dir |-> [s \in Shafts |-> -1]]
CalIdle == [shaft |-> 0, steps |-> 0, prior |-> [s \in Shafts |-> <<0, 0>>]]
Ev(op, n) == [op |-> op, n |-> n]

\* the slot whose record holds address a; -1 for the config record
SlotOf(a) == IF a < CONFIG_SIZE THEN -1 ELSE (a - CONFIG_SIZE) \div FILE_SIZE

\* altered, once the config record (if cfgWritten) and the record of slot
\* slotWritten (if not -2) have been written again
StillAltered(cfgWritten, slotWritten) ==
    IF altered = -1 THEN -1
    ELSE IF (cfgWritten /\ SlotOf(altered) = -1) \/ SlotOf(altered) = slotWritten THEN -1
    ELSE altered

(***************************************************************************)
(* Power.  The EEPROM of a new device holds 0xFF everywhere; erase_EEPROM  *)
(* leaves 0 everywhere.                                                    *)
(***************************************************************************)
InitRam ==
    /\ pc = "off"
    /\ halt_msg = ""
    /\ config_hdr = Zeros(CONFIG_HDR_SIZE)
    /\ file_hdr = Zeros(FILE_HDR_SIZE)
    /\ shaft_status = InitShaftStatus
    /\ tieup = InitTieup
    /\ treadle_sequence = [p \in SeqPos |-> 0]
    /\ sequence_size = 0
    /\ ls = LsIdle
    /\ wv = WvIdle
    /\ cal = CalIdle
    /\ ret = "none"
    /\ hw = [enb |-> FALSE, dir |-> 0, fault |-> FALSE]
    /\ pulses = [s \in Shafts |-> 0]
    /\ sched = SchedIdle
    /\ ev = Ev("none", 0)
    /\ altered = -1
    /\ oob = FALSE
    /\ used = [edits |-> 0, letters |-> 0, saves |-> 0, corrupt |-> 0]

FreshStore == [a \in 1..EEPROM_SIZE |-> 255]

\* a device that has never been powered
Init ==
    /\ InitRam
    /\ eeprom = FreshStore
    /\ saved = [n \in Slots |-> NoPattern]

\* the store of a device after its first session: the first power-up wrote
\* the config record and the plain-weave file 0; with a tie-up that used
\* shafts 0 and 2, shaft 0 was calibrated to 1 step down and 3 steps up and
\* shaft 2 to 3 steps down and 1 step up in weave mode; weave mode was left
\* at sequence position 0 and file 0 was loaded again
CalibratedShaftStatus ==
    [InitShaftStatus EXCEPT ![0] = [@ EXCEPT !.steps_to_down = 1, !.steps_to_up = 3],
                            ![2] = [@ EXCEPT !.steps_to_down = 3, !.steps_to_up = 1]]

CalibratedStore ==
    LET m == setup(PowerOnMemory(FreshStore), FALSE)
    IN  write_config([m EXCEPT !.ss = CalibratedShaftStatus, !.cfg[OFF_TR_SEQ_POS] = 0]).ee

InitCalibrated ==
    /\ InitRam
    /\ eeprom = CalibratedStore
    /\ saved = [n \in Slots |-> IF n = 0 THEN Pattern(setup(PowerOnMemory(FreshStore), FALSE))
                                 ELSE NoPattern]

\* power-up: the static initialisers, then setup
Boot ==
    /\ pc = "off"
    /\ \E erase \in BOOLEAN :
         LET mc == SetupConfig(PowerOnMemory(eeprom), erase)
             m == setup(PowerOnMemory(eeprom), erase)
             \* read_config found no valid config and wrote one, and file 0
             wrote == mc.ee # (IF erase THEN Zeros(EEPROM_SIZE) ELSE eeprom)
         IN  /\ Commit(m, "loop")
             /\ ev' = Ev("boot", m.cfg[OFF_LASTFILENUM])
             /\ saved' = [n \in Slots |-> IF n = 0 /\ wrote /\ mc.halt = "" THEN Pattern(mc)
                                          ELSE IF erase THEN NoPattern ELSE saved[n]]
             /\ altered' = IF erase THEN -1
                           ELSE StillAltered(wrote, IF wrote /\ mc.halt = "" THEN 0 ELSE -2)
    /\ UNCHANGED <<ls, motionVars, oob, used>>

\* power is cut: the memory is lost, the EEPROM and the shafts stay as they are
PowerOff ==
    /\ pc \in {"loop", "halt"}
    /\ pc' = "off"
    /\ halt_msg' = ""
    /\ config_hdr' = Zeros(CONFIG_HDR_SIZE)
    /\ file_hdr' = Zeros(FILE_HDR_SIZE)
    /\ shaft_status' = InitShaftStatus
    /\ tieup' = InitTieup
    /\ treadle_sequence' = [p \in SeqPos |-> 0]
    /\ sequence_size' = 0
    /\ ls' = LsIdle
    /\ wv' = WvIdle
    /\ cal' = CalIdle
    /\ ret' = "none"
    /\ hw' = [hw EXCEPT !.enb = FALSE, !.dir = 0]
    /\ sched' = SchedIdle
    /\ ev' = Ev("other", 0)
    /\ UNCHANGED <<eeprom, pulses, saved, altered, oob, used>>

\* one byte of the store changes while the power is off, before anything has
\* been saved from the menu
Corrupt ==
    /\ pc = "off"
    /\ used.corrupt < MaxCorrupt
    /\ used.saves = 0
    /\ \E a \in Addrs :
         /\ eeprom' = [eeprom EXCEPT ![a + 1] = (@ + 1) % 256]
         /\ altered' = a
    /\ used' = [used EXCEPT !.corrupt = @ + 1]
    /\ ev' = Ev("other", 0)
    /\ UNCHANGED <<pc, halt_msg, config_hdr, file_hdr, shaft_status, tieup, treadle_sequence,
                   sequence_size, ls, motionVars, saved, oob>>

(***************************************************************************)
(* The top-level loop and the editors.                                     *)
(***************************************************************************)
\* loop, ePB1: program_tieups is entered
EnterEditor ==
    /\ pc = "loop"
    /\ pc' = "tieups"
    /\ ev' = Ev("other", 0)
    /\ UNCHANGED <<halt_msg, memVars, ls, motionVars, saved, altered, oob, used>>

\* program_tieups, ePBH (tie) or ePBV (untie) with the cursor on (shaft, treadle)
TieupSet ==
    /\ pc = "tieups"
    /\ used.edits < MaxEdits
    /\ \E shaft \in Shafts, treadle \in Treadles, b \in {0, 1} :
         tieup' = [tieup EXCEPT ![shaft][treadle] = b]
    /\ used' = [used EXCEPT !.edits = @ + 1]
    /\ ev' = Ev("other", 0)
    /\ UNCHANGED <<pc, halt_msg, eeprom, config_hdr, file_hdr, shaft_status, treadle_sequence,
                   sequence_size, ls, motionVars, saved, altered, oob>>

\* program_tieups, ePB1: on to program_treadle_sequence
TieupsExit ==
    /\ pc = "tieups"
    /\ pc' = "sequence"
    /\ ev' = Ev("other", 0)
    /\ UNCHANGED <<halt_msg, memVars, ls, motionVars, saved, altered, oob, used>>

RECURSIVE InsertFrom(_, _, _)
\* the while loop of insert_treadle_sequence from position on
InsertFrom(ts, position, saved_treadle) ==
    IF position < MAX_SEQUENCE
    THEN InsertFrom([ts EXCEPT ![position] = saved_treadle], position + 1, ts[position])
    ELSE ts

\* insert_treadle_sequence if its loop kept writing the entry it saved first
insert_treadle_sequence_smeared(ts, position) ==
    [p \in SeqPos |-> IF p < position THEN ts[p]
                      ELSE IF p = position THEN UNUSED_SEQ
                      ELSE ts[position]]

insert_treadle_sequence(ts, position) ==
    InsertFrom([ts EXCEPT ![position] = UNUSED_SEQ], position + 1, ts[position])

RECURSIVE DeleteFrom(_, _)
\* the for loop of delete_treadle_sequence from position on, and the
\* assignment after it
DeleteFrom(ts, position) ==
    IF position < MAX_SEQUENCE - 1
    THEN DeleteFrom([ts EXCEPT ![position] = ts[position + 1]], position + 1)
    ELSE [ts EXCEPT ![position] = UNUSED_SEQ]

delete_treadle_sequence(ts, position) == DeleteFrom(ts, position)

\* program_treadle_sequence with the cursor on row sequence_pos: ePBH on a
\* treadle column assigns it, ePBV on the row's own treadle removes it, ePBH
\* and ePBV on the row itself insert and delete
SequenceEdit ==
    /\ pc = "sequence"
    /\ used.edits < MaxEdits
    /\ \E sequence_pos \in SeqPos :
         \/ \E treadle_num \in Treadles :
               treadle_sequence' = [treadle_sequence EXCEPT ![sequence_pos] = treadle_num]
         \/ /\ treadle_sequence[sequence_pos] \in Treadles
            /\ treadle_sequence' = [treadle_sequence EXCEPT ![sequence_pos] = UNUSED_SEQ]
         \/ treadle_sequence' = insert_treadle_sequence(treadle_sequence, sequence_pos)
         \/ treadle_sequence' = delete_treadle_sequence(treadle_sequence, sequence_pos)
    /\ used' = [used EXCEPT !.edits = @ + 1]
    /\ ev' = Ev("other", 0)
    /\ UNCHANGED <<pc, halt_msg, eeprom, config_hdr, file_hdr, shaft_status, tieup,
                   sequence_size, ls, motionVars, saved, altered, oob>>

\* program_treadle_sequence, ePB1: compact and return to the loop
SequenceExit ==
    /\ pc = "sequence"
    /\ Commit(cleanup_treadle_sequence(Mem), "loop")
    /\ ev' = Ev("other", 0)
    /\ UNCHANGED <<ls, motionVars, saved, altered, oob, used>>

(***************************************************************************)
(* loadsave_files.                                                         *)
(***************************************************************************)
RECURSIVE DisplayFrom(_, _, _)
\* display_files from row on: every file shown has its header read
DisplayFrom(m, filenum, row) ==
    IF row > 3 \/ filenum >= MAX_FILES THEN m
    ELSE DisplayFrom(read_file_hdr(m, filenum), filenum + 1, row + 1)

display_files(m, filenum) == DisplayFrom(m, filenum, 0)

\* the 0-based index of letter in filenamechars, or -1
CharIndex(letter) ==
    IF \E i \in 1..Len(filenamechars) : filenamechars[i] = letter
    THEN (CHOOSE i \in 1..Len(filenamechars) : filenamechars[i] = letter) - 1
    ELSE -1

\* changeletter: <<the new letter, whether the assertion held>>
changeletter(letter, forward) ==
    LET found == letter = 0 \/ CharIndex(letter) >= 0
        ndx == IF letter # 0 /\ found THEN CharIndex(letter) ELSE 0
        nxt == IF forward
               THEN (IF ndx + 1 >= Len(filenamechars) THEN 0 ELSE ndx + 1)
               ELSE (IF ndx - 1 < 0 THEN Len(filenamechars) - 1 ELSE ndx - 1)
    IN  << filenamechars[nxt + 1], found >>

\* file_hdr.filename[i] of the header bytes fh
NameAt(fh, i) == fh[OFF_FILENAME + i]
WithNameAt(fh, i, c) == [fh EXCEPT ![OFF_FILENAME + i] = c]
WithCleanName(m) ==
    [m EXCEPT !.fh = Overlay(m.fh, OFF_FILENAME, cleanup_filename(Filename(m.fh)))]

\* loop, ePB3: ask_choice answers 0 (abort), 1 (load), 2 (save) or 3 (erase)
LoadSaveEnter ==
    /\ pc = "loop"
    /\ \E choice \in 0..3 :
         \/ /\ choice = 0
            /\ ev' = Ev("other", 0)
            /\ UNCHANGED <<pc, halt_msg, memVars, ls, saved, altered>>
         \/ /\ choice = 3
            /\ \E yes \in BOOLEAN :
                 IF yes
                 THEN /\ Commit(erase_EEPROM(Mem), "loop")
                      /\ saved' = [n \in Slots |-> NoPattern]
                      /\ altered' = -1
                      /\ ev' = Ev("other", 0)
                 ELSE /\ ev' = Ev("other", 0)
                      /\ UNCHANGED <<pc, halt_msg, memVars, saved, altered>>
            /\ UNCHANGED ls
         \/ /\ choice \in {1, 2}
            /\ LET filenum == IF config_hdr[OFF_LASTFILENUM] < MAX_FILES
                              THEN config_hdr[OFF_LASTFILENUM] ELSE 0
                   top == IF filenum <= 2 THEN 0 ELSE filenum - 2
                   m == read_file_hdr(display_files(Mem, top), filenum)
               IN  /\ Commit(m, "files")
                   /\ ls' = IF m.halt # "" THEN LsIdle
                            ELSE [save |-> choice = 2, filenum |-> filenum, filenum_on_top |-> top,
                                  charnum |-> 0, row_select |-> TRUE]
            /\ ev' = Ev("other", 0)
            /\ UNCHANGED <<saved, altered>>
    /\ UNCHANGED <<motionVars, oob, used>>

\* eHrotL: move left
FilesLeft ==
    /\ pc = "files"
    /\ ls' = IF ~ls.save THEN ls
             ELSE IF ls.charnum = 0 THEN [ls EXCEPT !.row_select = TRUE]
             ELSE [ls EXCEPT !.charnum = @ - 1]
    /\ ev' = Ev("other", 0)
    /\ UNCHANGED <<pc, halt_msg, memVars, motionVars, saved, altered, oob, used>>

\* eHrotR: move right; moving onto the NUL that ends the name lengthens the name
FilesRight ==
    /\ pc = "files"
    /\ IF ~ls.save THEN UNCHANGED <<ls, file_hdr, oob>>
       ELSE IF ls.row_select
            THEN /\ ls' = [ls EXCEPT !.row_select = FALSE]
                 /\ UNCHANGED <<file_hdr, oob>>
       ELSE IF ls.charnum < MAX_FILENAME
            THEN LET charnum == ls.charnum + 1
                 IN  /\ ls' = [ls EXCEPT !.charnum = charnum]
                     /\ IF NameAt(file_hdr, charnum) = 0
                        THEN \* filename[charnum] = ' '; filename[charnum + 1] = NUL
                             /\ file_hdr' =
                                  IF OFF_FILENAME + charnum + 1 <= FILE_HDR_SIZE
                                  THEN WithNameAt(WithNameAt(file_hdr, charnum, BLANK), charnum + 1, 0)
                                  ELSE WithNameAt(file_hdr, charnum, BLANK)
                             /\ oob' = (oob \/ charnum + 1 > MAX_FILENAME)
                        ELSE UNCHANGED <<file_hdr, oob>>
       ELSE UNCHANGED <<ls, file_hdr, oob>>
    /\ ev' = Ev("other", 0)
    /\ UNCHANGED <<pc, halt_msg, eeprom, config_hdr, shaft_status, tieup, treadle_sequence,
                   sequence_size, motionVars, saved, altered, used>>

\* eVrotR (down is TRUE) and eVrotL: another file, or another letter
FilesVertical(down) ==
    /\ pc = "files"
    /\ IF ~ls.save \/ ls.row_select
       THEN LET can == IF down THEN ls.filenum < MAX_FILES - 1 ELSE ls.filenum > 0
                filenum == IF down THEN ls.filenum + 1 ELSE ls.filenum - 1
                top == IF down
                       THEN (IF filenum - ls.filenum_on_top > 3
                             THEN ls.filenum_on_top + 1 ELSE ls.filenum_on_top)
                       ELSE (IF filenum < ls.filenum_on_top
                             THEN ls.filenum_on_top - 1 ELSE ls.filenum_on_top)
                m == read_file_hdr(display_files(Mem, top), filenum)
            IN  IF can
                THEN /\ Commit(m, "files")
                     /\ ls' = IF m.halt # "" THEN LsIdle
                              ELSE [ls EXCEPT !.filenum = filenum, !.filenum_on_top = top,
                                              !.charnum = 0]
                     /\ UNCHANGED used
                ELSE UNCHANGED <<pc, halt_msg, memVars, ls, used>>
       ELSE LET r == changeletter(NameAt(file_hdr, ls.charnum), down)
            IN  /\ used.letters < MaxLetters
                /\ used' = [used EXCEPT !.letters = @ + 1]
                /\ Commit(assert([Mem EXCEPT !.fh = IF r[2] THEN WithNameAt(file_hdr, ls.charnum, r[1])
                                                    ELSE file_hdr],
                                 r[2], "bad filename char"), "files")
                /\ ls' = IF r[2] THEN ls ELSE LsIdle
    /\ ev' = Ev("other", 0)
    /\ UNCHANGED <<motionVars, saved, altered, oob>>

FilesDown == FilesVertical(TRUE)
FilesUp == FilesVertical(FALSE)

\* ePBH: in save mode with the row selected, write the file and the config
FilesSave ==
    /\ pc = "files"
    /\ ls.save /\ ls.row_select
    /\ used.saves < MaxSaves
    /\ LET m0 == WithCleanName(Mem)
           m1 == write_file(m0, ls.filenum)
           m2 == write_config(m1)
       IN  /\ Commit(m2, "loop")
           /\ saved' = IF m1.halt = "" THEN [saved EXCEPT ![ls.filenum] = Pattern(m1)] ELSE saved
           /\ altered' = IF m1.halt = "" THEN StillAltered(TRUE, ls.filenum) ELSE altered
    /\ ls' = LsIdle
    /\ used' = [used EXCEPT !.saves = @ + 1]
    /\ ev' = Ev("save", ls.filenum)
    /\ UNCHANGED <<motionVars, oob>>

\* ePBV in load mode: load the file and write the config
FilesLoad ==
    /\ pc = "files"
    /\ ~ls.save
    /\ LET m == write_config(read_file_data(Mem, ls.filenum))
       IN  /\ Commit(m, "loop")
           /\ altered' = IF m.halt = "" THEN StillAltered(TRUE, -2) ELSE altered
    /\ ls' = LsIdle
    /\ ev' = Ev("load", ls.filenum)
    /\ UNCHANGED <<motionVars, saved, oob, used>>

\* ePBV in name entry: on to the next letter
FilesNextChar ==
    /\ pc = "files"
    /\ ls.save /\ ~ls.row_select
    /\ ls' = IF ls.charnum < MAX_FILENAME THEN [ls EXCEPT !.charnum = @ + 1] ELSE ls
    /\ ev' = Ev("other", 0)
    /\ UNCHANGED <<pc, halt_msg, memVars, motionVars, saved, altered, oob, used>>

\* ePBV in save mode with the row selected: the save is aborted
FilesAbort ==
    /\ pc = "files"
    /\ ls.save /\ ls.row_select
    /\ Commit(WithCleanName(Mem), "loop")
    /\ ls' = LsIdle
    /\ ev' = Ev("other", 0)
    /\ UNCHANGED <<motionVars, saved, altered, oob, used>>

\* ePB1..ePB4: leave the menu
FilesExit ==
    /\ pc = "files"
    /\ pc' = "loop"
    /\ ls' = LsIdle
    /\ ev' = Ev("other", 0)
    /\ UNCHANGED <<halt_msg, memVars, motionVars, saved, altered, oob, used>>

(***************************************************************************)
(* The motion engine.  The shuttle counter, the displays and the lights    *)
(* are left out.                                                           *)
(***************************************************************************)
MaxJog == 1          \* steps a shaft is jogged away from where a calibration phase began
MaxWrap == 1         \* positions below 0 (wrapped to 255, 254, ...) the sequence position may take

\* shaft_hardware[].clockwise of the first NUM_SHAFTS motors, front then back
clockwise == [s \in Shafts |-> IF s < (NUM_SHAFTS + 1) \div 2 THEN 0 ELSE 1]

\* tieup[shaft][treadle] as the compiled code reads it: the byte at
\* shaft * NUM_TREADLES + treadle of the array
TieAt(tu, shaft, treadle) == TieupBytes(tu)[shaft * NUM_TREADLES + treadle + 1] # 0

RECURSIVE UsingFrom(_, _, _)
\* the loop of using_shaft from pos on
UsingFrom(m, shaft, pos) ==
    IF pos < m.sz
    THEN IF m.ts[pos] # UNUSED_SEQ /\ TieAt(m.tu, shaft, m.ts[pos])
         THEN TRUE
         ELSE UsingFrom(m, shaft, pos + 1)
    ELSE FALSE

\* using_shaft if it returned false from inside its loop
using_shaft_first(m, shaft) ==
    /\ 0 < m.sz
    /\ m.ts[0] # UNUSED_SEQ
    /\ TieAt(m.tu, shaft, m.ts[0])

using_shaft(m, shaft) == UsingFrom(m, shaft, 0)

\* what do_treadle queues for a shaft in use that is to go down or up
TreadleMove(st, down) ==
    IF down
    THEN IF st.shaft_position = SHAFT_UP
         THEN [st EXCEPT !.steps_to_move = (0 - st.steps_to_down) - st.steps_to_up]
         ELSE IF st.shaft_position = SHAFT_CENTER
         THEN [st EXCEPT !.steps_to_move = 0 - st.steps_to_down]
         ELSE st
    ELSE IF st.shaft_position = SHAFT_DOWN
         THEN [st EXCEPT !.steps_to_move = st.steps_to_down + st.steps_to_up]
         ELSE IF st.shaft_position = SHAFT_CENTER
         THEN [st EXCEPT !.steps_to_move = st.steps_to_up]
         ELSE st

\* do_treadle's queuing if a shaft going from UP to DOWN were sent only as
\* far as the center
do_treadle_queue_short(m, treadle) ==
    [m EXCEPT !.ss = [shaft \in Shafts |->
        IF ~using_shaft(m, shaft) THEN m.ss[shaft]
        ELSE IF TieAt(m.tu, shaft, treadle) /\ m.ss[shaft].shaft_position = SHAFT_UP
        THEN [m.ss[shaft] EXCEPT !.steps_to_move = 0 - m.ss[shaft].steps_to_up]
        ELSE TreadleMove(m.ss[shaft], TieAt(m.tu, shaft, treadle))]]

\* do_treadle's queuing if it did not ask using_shaft
do_treadle_queue_all(m, treadle) ==
    [m EXCEPT !.ss = [shaft \in Shafts |->
        TreadleMove(m.ss[shaft], TieAt(m.tu, shaft, treadle))]]

\* do_treadle up to its call of do_steps
do_treadle_queue(m, treadle) ==
    [m EXCEPT !.ss = [shaft \in Shafts |->
        IF using_shaft(m, shaft)
        THEN TreadleMove(m.ss[shaft], TieAt(m.tu, shaft, treadle))
        ELSE m.ss[shaft]]]

\* do_treadle if it did not record the positions reached
do_treadle_record_none(m, treadle) == m

\* do_treadle if it untied each shaft from the treadle as it recorded the
\* position reached
do_treadle_record_untied(m, treadle) ==
    [m EXCEPT !.ss = [shaft \in Shafts |->
                [m.ss[shaft] EXCEPT !.shaft_position =
                    IF TieAt(m.tu, shaft, treadle) THEN SHAFT_DOWN ELSE SHAFT_UP]],
              !.tu = [shaft \in Shafts |-> [t \in Treadles |->
                         IF t = treadle THEN 0 ELSE m.tu[shaft][t]]]]

\* do_treadle after do_steps has returned
do_treadle_record(m, treadle) ==
    [m EXCEPT !.ss = [shaft \in Shafts |->
        [m.ss[shaft] EXCEPT !.shaft_position =
            IF TieAt(m.tu, shaft, treadle) THEN SHAFT_DOWN ELSE SHAFT_UP]]]

\* center_all_shafts' queuing if it took steps_to_down for a shaft that is UP
\* and steps_to_up for one that is DOWN
center_all_shafts_queue_swapped(m) ==
    [m EXCEPT !.ss = [shaft \in Shafts |->
        LET st == m.ss[shaft]
            queued == IF ~using_shaft(m, shaft) THEN st
                      ELSE IF st.shaft_position = SHAFT_UP
                      THEN [st EXCEPT !.steps_to_move = 0 - st.steps_to_down]
                      ELSE IF st.shaft_position = SHAFT_DOWN
                      THEN [st EXCEPT !.steps_to_move = st.steps_to_up]
                      ELSE [st EXCEPT !.steps_to_move = 0]
        IN  [queued EXCEPT !.shaft_position = SHAFT_CENTER]]]

\* center_all_shafts' queuing if it left the recording of SHAFT_CENTER to
\* after do_steps
center_all_shafts_queue_unrecorded(m) ==
    [m EXCEPT !.ss = [shaft \in Shafts |->
        LET st == m.ss[shaft]
        IN  IF ~using_shaft(m, shaft) THEN st
            ELSE IF st.shaft_position = SHAFT_UP
            THEN [st EXCEPT !.steps_to_move = 0 - st.steps_to_up]
            ELSE IF st.shaft_position = SHAFT_DOWN
            THEN [st EXCEPT !.steps_to_move = st.steps_to_down]
            ELSE IF st.shaft_position = SHAFT_CENTER
            THEN [st EXCEPT !.steps_to_move = 0]
            ELSE st]]

\* center_all_shafts' queuing if it had no case for a shaft that is DOWN
center_all_shafts_queue_up_only(m) ==
    [m EXCEPT !.ss = [shaft \in Shafts |->
        LET st == m.ss[shaft]
            queued == IF ~using_shaft(m, shaft) THEN st
                      ELSE IF st.shaft_position = SHAFT_UP
                      THEN [st EXCEPT !.steps_to_move = 0 - st.steps_to_up]
                      ELSE IF st.shaft_position = SHAFT_CENTER
                      THEN [st EXCEPT !.steps_to_move = 0]
                      ELSE st
        IN  [queued EXCEPT !.shaft_position = SHAFT_CENTER]]]

\* center_all_shafts' queuing if it recorded SHAFT_CENTER for the shafts in
\* use only
center_all_shafts_queue_used_only(m) ==
    [m EXCEPT !.ss = [shaft \in Shafts |->
        LET st == m.ss[shaft]
        IN  IF ~using_shaft(m, shaft) THEN st
            ELSE [shaft_position |-> SHAFT_CENTER,
                  steps_to_down |-> st.steps_to_down,
                  steps_to_up |-> st.steps_to_up,
                  steps_to_move |-> IF st.shaft_position = SHAFT_UP THEN 0 - st.steps_to_up
                                    ELSE IF st.shaft_position = SHAFT_DOWN THEN st.steps_to_down
                                    ELSE IF st.shaft_position = SHAFT_CENTER THEN 0
                                    ELSE st.steps_to_move]]]

\* center_all_shafts up to its call of do_steps
center_all_shafts_queue(m) ==
    [m EXCEPT !.ss = [shaft \in Shafts |->
        LET st == m.ss[shaft]
            queued == IF ~using_shaft(m, shaft) THEN st
                      ELSE IF st.shaft_position = SHAFT_UP
                      THEN [st EXCEPT !.steps_to_move = 0 - st.steps_to_up]
                      ELSE IF st.shaft_position = SHAFT_DOWN
                      THEN [st EXCEPT !.steps_to_move = st.steps_to_down]
                      ELSE IF st.shaft_position = SHAFT_CENTER
                      THEN [st EXCEPT !.steps_to_move = 0]
                      ELSE st
        IN  [queued EXCEPT !.shaft_position = SHAFT_CENTER]]]

\* the step pulse (+1 up, -1 down, 0 none) one pass of do_steps gives a shaft
PassPulse(st) == IF st.steps_to_move < 0 THEN -1 ELSE IF st.steps_to_move > 0 THEN 1 ELSE 0

\* a pass of do_steps if only the first shaft with steps pending stepped
do_steps_pass_first(ss) ==
    LET pending == {shaft \in Shafts : ss[shaft].steps_to_move # 0}
        first == CHOOSE shaft \in pending : \A other \in pending : shaft <= other
        pulse == [shaft \in Shafts |-> IF pending # {} /\ shaft = first THEN PassPulse(ss[shaft])
                                       ELSE 0]
    IN  [ss |-> [shaft \in Shafts |-> [ss[shaft] EXCEPT !.steps_to_move = @ - pulse[shaft]]],
         pulse |-> pulse]

\* a pass of do_steps if it counted two steps for each pulse it gave
do_steps_pass_two(ss) ==
    [ss |-> [shaft \in Shafts |-> [ss[shaft] EXCEPT !.steps_to_move =
                IF @ > 1 THEN @ - 2 ELSE IF @ < -1 THEN @ + 2 ELSE 0]],
     pulse |-> [shaft \in Shafts |-> PassPulse(ss[shaft])]]

\* one pass of the loop of do_steps: shaft_status after it, and the step
\* pulse each shaft was given
do_steps_pass(ss) ==
    [ss |-> [shaft \in Shafts |-> [ss[shaft] EXCEPT !.steps_to_move = @ - PassPulse(ss[shaft])]],
     pulse |-> [shaft \in Shafts |-> PassPulse(ss[shaft])]]

\* step_done if only a step of shaft 0 set it
step_done_first(ss) == ss[0].steps_to_move # 0

\* step_done after a pass that is about to start: some shaft will step in it
step_done(ss) == \E shaft \in Shafts : ss[shaft].steps_to_move # 0

\* MOTOR_DIR if every motor turned clockwise to go up
set_direction_one_sense(move, shaft, dir) ==
    IF move < 0 THEN 0 ELSE IF move > 0 THEN 1 ELSE dir

\* MOTOR_DIR as do_steps and get_calibration write it before they pulse a
\* shaft that is to move down (move < 0) or up (move > 0); dir, as it was,
\* for a shaft that is not to move
set_direction(move, shaft, dir) ==
    IF move < 0 THEN 1 - clockwise[shaft]
    ELSE IF move > 0 THEN clockwise[shaft]
    ELSE dir

\* the for loop of one pass of do_steps from "shaft" on: MOTOR_DIR when the
\* loop ends, and in "at" what MOTOR_DIR was at the pulse of each shaft it
\* stepped
RECURSIVE DirWalk(_, _, _, _)
DirWalk(ss, shaft, dir, at) ==
    IF shaft >= NUM_SHAFTS THEN [dir |-> dir, at |-> at]
    ELSE LET set == set_direction(ss[shaft].steps_to_move, shaft, dir)
         IN  DirWalk(ss, shaft + 1, set,
                     IF ss[shaft].steps_to_move # 0 THEN [at EXCEPT ![shaft] = set] ELSE at)

\* no pulse yet
NoPulse == [shaft \in Shafts |-> -1]

\* MOTOR_DIR after one pass: as set for the last shaft stepped
PassDir(ss, dir) == DirWalk(ss, 0, dir, NoPulse).dir

\* do_calibration when get_calibration(shaft, "down", false) has returned
\* steps: steps_to_down, and the move back to the center
calibrated_down(m, shaft, steps) ==
    [m EXCEPT !.ss[shaft].steps_to_down = 0 - steps,
              !.ss[shaft].steps_to_move = 0 - steps]

\* the same for "up" if the move queued were steps_to_up, not its negative
calibrated_up_away(m, shaft, steps) ==
    [m EXCEPT !.ss[shaft].steps_to_up = steps,
              !.ss[shaft].steps_to_move = steps]

\* do_calibration when get_calibration(shaft, "up", false) has returned
\* steps: steps_to_up, and the move back to the center
calibrated_up(m, shaft, steps) ==
    [m EXCEPT !.ss[shaft].steps_to_up = steps,
              !.ss[shaft].steps_to_move = 0 - steps]

\* do_calibration's first loop
ResetCalibration(m) ==
    [m EXCEPT !.ss = [shaft \in Shafts |->
        [shaft_position |-> SHAFT_CENTER, steps_to_down |-> NOMINAL_STEPS,
         steps_to_up |-> NOMINAL_STEPS, steps_to_move |-> 0]]]

\* the first shaft from "from" on that do_calibration's second loop stops at,
\* NUM_SHAFTS if there is none
NextUsed(m, from) ==
    LET rest == {shaft \in Shafts : shaft >= from /\ using_shaft(m, shaft)}
    IN  IF rest = {} THEN NUM_SHAFTS ELSE CHOOSE shaft \in rest : \A other \in rest : shaft <= other

\* weave's ++config_hdr.tr_seq_pos and --config_hdr.tr_seq_pos on a byte
Forward(pos, size) == IF (pos + 1) % 256 >= size THEN 0 ELSE (pos + 1) % 256
Backward(pos, size) == (pos + 255) % 256

\* what treadle_sequence[pos] reads: past the array, whatever lies there
ReadSequence(ts, pos) == IF pos < MAX_SEQUENCE THEN {ts[pos]} ELSE Treadles \cup {UNUSED_SEQ}

\* do_steps is entered from "from": its first assertion, then its loop begins.
\* sched notes what was queued, the pulses given so far, and the positions
\* on record before the caller queued the motion.
StartSteps(m, from) ==
    LET m1 == assert(m, ~hw.fault, "motor failure")
    IN  /\ Commit(m1, "steps")
        /\ ret' = from
        /\ sched' = [start |-> [s \in Shafts |-> m.ss[s].steps_to_move], passes |-> 0,
                      base |-> pulses,
                      pos |-> [s \in Shafts |-> shaft_status[s].shaft_position],
                      dir |-> [s \in Shafts |-> -1]]

\* steps_to_down and steps_to_up of every shaft
Calibration(ss) == [s \in Shafts |-> <<ss[s].steps_to_down, ss[s].steps_to_up>>]

\* do_calibration moves on to the shaft NextUsed finds, or ends: write_config
\* and back to weave.  cal.prior keeps the calibration do_calibration was
\* entered with.
CalibrateFrom(m, from) ==
    LET shaft == NextUsed(m, from)
    IN  IF shaft < NUM_SHAFTS
        THEN /\ Commit(m, "cal_center")
             /\ cal' = [shaft |-> shaft, steps |-> 0,
                        prior |-> IF pc = "loop" THEN Calibration(shaft_status) ELSE cal.prior]
        ELSE /\ Commit(write_config(m), "weave")
             /\ cal' = CalIdle

\* loop, ePB2: weave is entered, and wait_yesno is answered
WeaveEnter ==
    /\ pc = "loop"
    /\ hw' = [hw EXCEPT !.enb = TRUE]
    /\ wv' = [WvIdle EXCEPT !.motors_on = TRUE]
    /\ LET m == assert(Mem, ~hw.fault, "motor failure")
       IN  \E calibrate \in BOOLEAN :
             IF calibrate /\ m.halt = ""
             THEN CalibrateFrom(ResetCalibration(m), 0)
             ELSE Commit(m, "weave") /\ cal' = CalIdle
    /\ ev' = Ev("other", 0)
    /\ UNCHANGED <<ls, ret, pulses, sched, saved, altered, oob, used>>

\* get_calibration, eVrotR (down) or eVrotL (up): uSTEPS_PER_STEP pulses
CalTurn ==
    /\ pc \in {"cal_center", "cal_down", "cal_up"}
    /\ \E stepadj \in {-1, 1} :
         LET steps == cal.steps + stepadj * uSTEPS_PER_STEP
         IN  /\ steps <= MaxJog /\ steps >= 0 - MaxJog
             /\ cal' = [cal EXCEPT !.steps = steps]
             /\ pulses' = [pulses EXCEPT ![cal.shaft] = @ + stepadj * uSTEPS_PER_STEP]
             /\ hw' = [hw EXCEPT !.dir = set_direction(stepadj, cal.shaft, hw.dir)]
    /\ ev' = Ev("other", 0)
    /\ UNCHANGED <<pc, halt_msg, memVars, ls, wv, ret, sched, saved, altered, oob, used>>

\* get_calibration(shaft, "center", true), ePBH: 999, the shaft is skipped.
\* Where the shaft stands is its center from now on.
CalSkip ==
    /\ pc = "cal_center"
    /\ CalibrateFrom(Mem, cal.shaft + 1)
    /\ pulses' = [pulses EXCEPT ![cal.shaft] = 0]
    /\ ev' = Ev("other", 0)
    /\ UNCHANGED <<ls, wv, ret, hw, sched, saved, altered, oob, used>>

\* get_calibration(shaft, "center", true), ePBV: where the shaft stands is
\* its center from now on; get_calibration(shaft, "down", false) begins
CalCenterDone ==
    /\ pc = "cal_center"
    /\ pc' = "cal_down"
    /\ cal' = [cal EXCEPT !.steps = 0]
    /\ pulses' = [pulses EXCEPT ![cal.shaft] = 0]
    /\ ev' = Ev("other", 0)
    /\ UNCHANGED <<halt_msg, memVars, ls, wv, ret, hw, sched, saved, altered, oob, used>>

\* get_calibration(shaft, "down", false), ePBV: the shaft is sent back up
CalDownDone ==
    /\ pc = "cal_down"
    /\ StartSteps(calibrated_down(Mem, cal.shaft, cal.steps), "cal_down")
    /\ ev' = Ev("other", 0)
    /\ UNCHANGED <<ls, wv, cal, hw, pulses, saved, altered, oob, used>>

\* get_calibration(shaft, "up", false), ePBV: the shaft is sent back down
CalUpDone ==
    /\ pc = "cal_up"
    /\ StartSteps(calibrated_up(Mem, cal.shaft, cal.steps), "cal_up")
    /\ ev' = Ev("other", 0)
    /\ UNCHANGED <<ls, wv, cal, hw, pulses, saved, altered, oob, used>>

\* one pass of the loop of do_steps in which some shaft steps, and the
\* assertion that ends the pass
StepPass ==
    /\ pc = "steps"
    /\ step_done(shaft_status)
    /\ LET pass == do_steps_pass(shaft_status)
       IN  /\ Commit(assert([Mem EXCEPT !.ss = pass.ss], ~hw.fault, "motor failure"), "steps")
           /\ pulses' = [shaft \in Shafts |-> pulses[shaft] + pass.pulse[shaft]]
    /\ hw' = [hw EXCEPT !.dir = PassDir(shaft_status, hw.dir)]
    /\ sched' = [sched EXCEPT !.passes = @ + 1,
                              !.dir = DirWalk(shaft_status, 0, hw.dir, NoPulse).at]
    /\ ev' = Ev("other", 0)
    /\ UNCHANGED <<ls, wv, cal, ret, saved, altered, oob, used>>

\* do_steps returns to do_treadle, which records the positions and returns
\* to the loop of weave
TreadleDone ==
    /\ pc = "steps" /\ ret = "treadle"
    /\ ~step_done(shaft_status)
    /\ Commit(do_treadle_record(Mem, wv.treadle), "weave")
    /\ wv' = [wv EXCEPT !.before_movement = FALSE, !.last = wv.treadle]
    /\ ret' = "none"
    /\ sched' = SchedIdle
    /\ ev' = Ev("other", 0)
    /\ UNCHANGED <<ls, cal, hw, pulses, saved, altered, oob, used>>

\* do_steps returns to do_calibration after the down phase
CalDownCentered ==
    /\ pc = "steps" /\ ret = "cal_down"
    /\ ~step_done(shaft_status)
    /\ pc' = "cal_up"
    /\ cal' = [cal EXCEPT !.steps = 0]
    /\ ret' = "none"
    /\ sched' = SchedIdle
    /\ ev' = Ev("other", 0)
    /\ UNCHANGED <<halt_msg, memVars, ls, wv, hw, pulses, saved, altered, oob, used>>

\* do_steps returns to do_calibration after the up phase
CalUpCentered ==
    /\ pc = "steps" /\ ret = "cal_up"
    /\ ~step_done(shaft_status)
    /\ CalibrateFrom(Mem, cal.shaft + 1)
    /\ ret' = "none"
    /\ sched' = SchedIdle
    /\ ev' = Ev("other", 0)
    /\ UNCHANGED <<ls, wv, hw, pulses, saved, altered, oob, used>>

\* do_steps returns to center_all_shafts and that to weave, which disables
\* the motors, writes the config and returns to loop
CenterDone ==
    /\ pc = "steps" /\ ret = "center"
    /\ ~step_done(shaft_status)
    /\ Commit(write_config(Mem), "loop")
    /\ hw' = [hw EXCEPT !.enb = FALSE]
    /\ wv' = WvIdle
    /\ ret' = "none"
    /\ sched' = SchedIdle
    /\ ev' = Ev("other", 0)
    /\ altered' = StillAltered(TRUE, -2)
    /\ UNCHANGED <<ls, cal, pulses, saved, oob, used>>

\* weave, from do_pedal on, at sequence position pos
DoPedal(pos, moved) ==
    LET at == IF moved THEN Forward(pos, sequence_size) ELSE pos
    IN  /\ hw' = [hw EXCEPT !.enb = TRUE]
        /\ oob' = (oob \/ at >= MAX_SEQUENCE)
        /\ \E treadle \in ReadSequence(treadle_sequence, at) :
             LET m == [Mem EXCEPT !.cfg[OFF_TR_SEQ_POS] = at]
             IN  IF treadle # UNUSED_SEQ
                 THEN /\ StartSteps(do_treadle_queue(m, treadle), "treadle")
                      /\ wv' = [wv EXCEPT !.motors_on = TRUE, !.treadle = treadle]
                 ELSE /\ Commit(m, "weave")
                      /\ wv' = [wv EXCEPT !.motors_on = TRUE, !.before_movement = FALSE]
                      /\ UNCHANGED <<ret, sched>>

\* weave, ePEDAL
WeavePedal ==
    /\ pc = "weave"
    /\ DoPedal(config_hdr[OFF_TR_SEQ_POS], ~wv.before_movement)
    /\ ev' = Ev("pedal", 0)
    /\ UNCHANGED <<ls, cal, pulses, saved, altered, used>>

\* the sequence position is kept within MaxWrap of the array when it wraps
InReach(pos) == pos < MAX_SEQUENCE \/ pos >= 256 - MaxWrap

\* weave, ePBV: one position back, then as the pedal
WeaveUndo ==
    /\ pc = "weave"
    /\ InReach(Backward(config_hdr[OFF_TR_SEQ_POS], sequence_size))
    /\ DoPedal(Backward(config_hdr[OFF_TR_SEQ_POS], sequence_size), FALSE)
    /\ ev' = Ev("undo", 0)
    /\ UNCHANGED <<ls, cal, pulses, saved, altered, used>>

\* weave, eVrotL (back) or eVrotR (forward): new_position
WeaveTurn ==
    /\ pc = "weave"
    /\ \E pos \in {Backward(config_hdr[OFF_TR_SEQ_POS], sequence_size),
                   Forward(config_hdr[OFF_TR_SEQ_POS], sequence_size)} :
         /\ InReach(pos)
         /\ config_hdr' = [config_hdr EXCEPT ![OFF_TR_SEQ_POS] = pos]
    /\ wv' = [wv EXCEPT !.before_movement = TRUE]
    /\ ev' = Ev("other", 0)
    /\ UNCHANGED <<pc, halt_msg, eeprom, file_hdr, shaft_status, tieup, treadle_sequence,
                   sequence_size, ls, cal, ret, hw, pulses, sched, saved, altered, oob, used>>

\* weave, no event for MINS_BEFORE_MOTOR_DISABLE minutes
WeaveIdle ==
    /\ pc = "weave"
    /\ wv.motors_on
    /\ hw' = [hw EXCEPT !.enb = FALSE]
    /\ wv' = [wv EXCEPT !.motors_on = FALSE]
    /\ ev' = Ev("other", 0)
    /\ UNCHANGED <<pc, halt_msg, memVars, ls, cal, ret, pulses, sched, saved, altered, oob, used>>

\* weave, ePB1, ePB2 or ePB3: center_all_shafts up to the loop of do_steps
WeaveExit ==
    /\ pc = "weave"
    /\ StartSteps(center_all_shafts_queue(Mem), "center")
    /\ ev' = Ev("other", 0)
    /\ UNCHANGED <<ls, wv, cal, hw, pulses, saved, altered, oob, used>>

\* the motor driver raises its fault signal
RaiseFault ==
    /\ pc \notin {"off", "halt"}
    /\ ~hw.fault
    /\ hw' = [hw EXCEPT !.fault = TRUE]
    /\ UNCHANGED <<pc, halt_msg, memVars, ls, wv, cal, ret, pulses, sched, ev, saved, altered,
                   oob, used>>

NextPower == Boot \/ PowerOff

NextFiles ==
    \/ LoadSaveEnter \/ FilesDown \/ FilesUp
    \/ FilesSave \/ FilesLoad \/ FilesAbort \/ FilesExit

NextNames == FilesLeft \/ FilesRight \/ FilesNextChar

NextEditor == EnterEditor \/ TieupSet \/ TieupsExit \/ SequenceEdit \/ SequenceExit

\* the store and the editors
SpecStore == Init /\ [][NextPower \/ NextFiles \/ NextEditor]_vars

NextCalibration ==
    \/ CalTurn \/ CalSkip \/ CalCenterDone \/ CalDownDone \/ CalUpDone
    \/ CalDownCentered \/ CalUpCentered
NextWeave ==
    \/ WeaveEnter \/ WeavePedal \/ WeaveUndo \/ WeaveTurn \/ WeaveIdle \/ WeaveExit
    \/ StepPass \/ TreadleDone \/ CenterDone

\* the motion engine, from a new or a calibrated store
SpecMotion == (Init \/ InitCalibrated) /\ [][NextPower \/ NextCalibration \/ NextWeave]_vars

\* the store, with a byte altered behind the program's back
SpecCorrupt == (Init \/ InitCalibrated) /\ [][NextPower \/ NextFiles \/ Corrupt]_vars

\* calibration where the shafts stand, and weaving forward by the pedal
NextPedal ==
    \/ WeaveEnter \/ CalSkip \/ CalCenterDone \/ CalDownDone \/ CalUpDone
    \/ CalDownCentered \/ CalUpCentered
    \/ WeavePedal \/ WeaveExit \/ StepPass \/ TreadleDone \/ CenterDone

\* a session at the loom: the load/save menu, calibration and weaving
SpecSession == Init /\ [][NextPower \/ NextFiles \/ NextPedal]_vars

\* the load/save menu with the editing of file names
SpecNames == Init /\ [][NextPower \/ NextFiles \/ NextNames]_vars

\* the motion engine, with a motor driver that may raise its fault signal
SpecFault ==
    (Init \/ InitCalibrated) /\ [][NextPower \/ NextCalibration \/ NextWeave \/ RaiseFault]_vars

(***************************************************************************)
(* Properties of the persistent store.                                     *)
(***************************************************************************)
StoredHdr(n) == read_EEPROM(eeprom, FileLoc(n), FILE_HDR_SIZE)

\* the record stored in slot n passes the three checks of a file record
RecordValid(n) ==
    /\ FhId(StoredHdr(n)) = FIL_ID
    /\ FhSize(StoredHdr(n)) = FILE_SIZE
    /\ SumBytes(StoredHdr(n)) % 256 = 0

\* the last step loaded slot n, from the menu or at power-up
Loaded(n) == ev.op \in {"load", "boot"} /\ ev.n = n

\* C1: a slot written by write_file and then loaded gives back the name, the
\* tie-up matrix and the treadle sequence buffer that were live at the write
C1_RoundTrip ==
    \A n \in Slots :
        (Loaded(n) /\ pc = "loop" /\ saved[n] # NoPattern /\ altered = -1)
            => /\ Filename(file_hdr) = saved[n].name
               /\ tieup = saved[n].tu
               /\ treadle_sequence = saved[n].ts

\* C2: after a single byte of a written record has been altered, a load of
\* the slot ends in the halt or treats the record as blank
C2_ChecksumCoverage ==
    \A n \in Slots :
        (Loaded(n) /\ saved[n] # NoPattern /\ altered # -1 /\ SlotOf(altered) = n)
            => (pc = "halt" \/ FhId(StoredHdr(n)) # FIL_ID)

\* C3: no corruption of a file record (bad tag, bad size, bad checksum) ever
\* leads into the diagnostic halt
C3_CorruptionNonFatal ==
    ~(pc = "halt" /\ halt_msg \in {"bad file size", "bad file checksum"})

\* C4: after the load of a slot whose record fails validation the live pattern
\* is the plain-weave default with a blank name
C4_InvalidLoadsDefault ==
    \A n \in Slots :
        (Loaded(n) /\ pc = "loop" /\ ~RecordValid(n))
            => /\ Filename(file_hdr) = Zeros(MAX_FILENAME + 1)
               /\ tieup = InitTieup
               /\ treadle_sequence = TabbySequence
               /\ sequence_size = 2

\* C5: a power-up that reads a config header with a valid tag and other
\* numshafts, numtreadles or maxsequence ends in the halt, with shaft_status,
\* the pattern and file_hdr as initialised and the store as it was
C5_SchemaMismatchFatal ==
    [][(pc = "off" /\ pc' # "off" /\ CfgId(config_hdr') = CFG_ID /\ ~SchemaMatches(config_hdr'))
          => /\ pc' = "halt"
             /\ eeprom' = eeprom
             /\ shaft_status' = InitShaftStatus
             /\ tieup' = InitTieup
             /\ treadle_sequence' = TabbySequence
             /\ sequence_size' = 2
             /\ file_hdr' = Zeros(FILE_HDR_SIZE)]_vars

C5_Witness ==
    /\ pc = "halt"
    /\ halt_msg = "inconsistent config"
    /\ ShaftStatusFromBytes(read_EEPROM(eeprom, CONFIG_HDR_SIZE, NUM_SHAFTS * SHAFT_SIZE))
         # shaft_status

(***************************************************************************)
(* Properties of the motion engine.                                        *)
(***************************************************************************)
Abs(n) == IF n < 0 THEN 0 - n ELSE n

\* do_treadle has queued its steps and do_steps has not yet made a pass
TreadleQueued == pc = "steps" /\ ret = "treadle" /\ sched.passes = 0

\* the step count the specification gives for a shaft at position going to DOWN
\* (down) or to UP
TravelTo(st, down) ==
    IF down
    THEN CASE st.shaft_position = SHAFT_CENTER -> 0 - st.steps_to_down
           [] st.shaft_position = SHAFT_UP -> 0 - (st.steps_to_down + st.steps_to_up)
           [] OTHER -> 0
    ELSE CASE st.shaft_position = SHAFT_CENTER -> st.steps_to_up
           [] st.shaft_position = SHAFT_DOWN -> st.steps_to_down + st.steps_to_up
           [] OTHER -> 0

\* C6: when do_treadle(t) has queued its steps, every shaft in use has
\* steps_to_move equal to -steps_to_down from CENTER to DOWN, +steps_to_up
\* from CENTER to UP, -(steps_to_down + steps_to_up) from UP to DOWN,
\* +(steps_to_down + steps_to_up) from DOWN to UP and 0 at its target, the
\* target being DOWN iff tieup[shaft][t]
C6_TreadleSteps ==
    TreadleQueued =>
        \A shaft \in Shafts :
            using_shaft(Mem, shaft) =>
                shaft_status[shaft].steps_to_move
                    = TravelTo(shaft_status[shaft], TieAt(tieup, shaft, wv.treadle))

\* two shafts in use cross, one from UP to DOWN and one from DOWN to UP,
\* over a nonzero travel
C6_Witness ==
    /\ TreadleQueued
    /\ \E a, b \in Shafts :
         /\ using_shaft(Mem, a) /\ using_shaft(Mem, b)
         /\ shaft_status[a].shaft_position = SHAFT_UP /\ shaft_status[a].steps_to_move < 0
         /\ shaft_status[b].shaft_position = SHAFT_DOWN /\ shaft_status[b].steps_to_move > 0

\* do_treadle is under way for the treadle the do_treadle before it was for
SecondCall == pc = "steps" /\ ret = "treadle" /\ wv.treadle = wv.last

\* C7: do_treadle(t) called right after do_treadle(t) queues 0 steps for
\* every shaft, gives no step pulse and leaves every shaft_position as it was
C7_TreadleIdempotent ==
    [][(SecondCall \/ SecondCall') =>
        /\ \A shaft \in Shafts :
             /\ shaft_status'[shaft].steps_to_move = 0
             /\ shaft_status'[shaft].shaft_position = shaft_status[shaft].shaft_position
        /\ pulses' = pulses]_vars

\* the second call finds a shaft in use away from the center over a nonzero travel
C7_Witness ==
    /\ SecondCall
    /\ \E shaft \in Shafts :
         /\ using_shaft(Mem, shaft)
         /\ pulses[shaft] # 0
         /\ shaft_status[shaft].shaft_position # SHAFT_CENTER

\* the net pulses the bookkeeping stands for: +steps_to_up if the shaft is
\* UP, -steps_to_down if DOWN, 0 if CENTER
Booked(st) ==
    CASE st.shaft_position = SHAFT_UP -> st.steps_to_up
      [] st.shaft_position = SHAFT_DOWN -> 0 - st.steps_to_down
      [] OTHER -> 0

InStep(shaft) == using_shaft(Mem, shaft) => pulses[shaft] = Booked(shaft_status[shaft])

\* C8 as claimed: wherever the program waits for an event (the center
\* prompt of get_calibration, where the center is still being set, left
\* aside), every shaft in use has had net pulses since its center equal to
\* what its shaft_position stands for
C8_AtEveryWait ==
    pc \in {"loop", "weave", "cal_down", "cal_up"} => \A shaft \in Shafts : InStep(shaft)

\* C8: wherever the program waits for an event, every shaft in use other
\* than the one get_calibration is jogging has had net pulses since its
\* center equal to what its shaft_position stands for
C8_Bookkeeping ==
    /\ pc \in {"loop", "weave"} => \A shaft \in Shafts : InStep(shaft)
    /\ pc \in {"cal_center", "cal_down", "cal_up"} =>
         \A shaft \in Shafts \ {cal.shaft} : InStep(shaft)

\* weave waits with one shaft in use UP and one DOWN, the first with travels
\* that are not the nominal ones and differ from one another
C8_Witness ==
    /\ pc = "weave"
    /\ \E a, b \in Shafts :
         /\ using_shaft(Mem, a) /\ using_shaft(Mem, b)
         /\ shaft_status[a].shaft_position = SHAFT_UP /\ pulses[a] > 0
         /\ shaft_status[b].shaft_position = SHAFT_DOWN /\ pulses[b] < 0
         /\ shaft_status[a].steps_to_up # NOMINAL_STEPS
         /\ shaft_status[a].steps_to_up # shaft_status[a].steps_to_down

\* C9: while do_steps runs for do_treadle or for center_all_shafts, a shaft
\* for which using_shaft is false is given no step pulse
C9_UnusedNeverPulsed ==
    [][(pc = "steps" /\ ret \in {"treadle", "center"}) =>
        \A shaft \in Shafts : ~using_shaft(Mem, shaft) => pulses'[shaft] = pulses[shaft]]_vars

\* passes of do_steps have been made for do_treadle or center_all_shafts
\* while a shaft not in use is recorded away from the center
C9_Witness ==
    /\ pc = "steps" /\ ret \in {"treadle", "center"}
    /\ sched.passes > 0
    /\ \E shaft \in Shafts :
         /\ ~using_shaft(Mem, shaft)
         /\ shaft_status[shaft].shaft_position # SHAFT_CENTER

\* C10: a pass of do_steps gives every shaft with steps_to_move # 0 one
\* pulse in its direction and brings its steps_to_move one nearer to 0, and
\* gives the others none; after k passes a shaft that began with n steps
\* has max(0, |n| - k) left
C10_RoundRobin ==
    [][/\ (pc = "steps" /\ sched'.passes = sched.passes + 1) =>
            \A shaft \in Shafts :
                LET n == shaft_status[shaft].steps_to_move
                    n1 == shaft_status'[shaft].steps_to_move
                    given == pulses'[shaft] - pulses[shaft]
                IN  /\ n > 0 => (given = 1 /\ n1 = n - 1)
                    /\ n < 0 => (given = -1 /\ n1 = n + 1)
                    /\ n = 0 => (given = 0 /\ n1 = 0)
       /\ pc' = "steps" =>
            \A shaft \in Shafts :
                LET left == Abs(sched'.start[shaft]) - sched'.passes
                IN  Abs(shaft_status'[shaft].steps_to_move) = IF left > 0 THEN left ELSE 0]_vars

\* after some passes a shaft moving down has arrived while a shaft moving
\* up still has steps left
C10_Witness ==
    /\ pc = "steps"
    /\ sched.passes > 0
    /\ \E a, b \in Shafts :
         /\ sched.start[a] < 0 /\ shaft_status[a].steps_to_move = 0
         /\ sched.start[b] > 0 /\ shaft_status[b].steps_to_move > 0

(***************************************************************************)
(* The step scheduler runs to completion.                                  *)
(***************************************************************************)
\* the longest move queued when do_steps was entered
LongestMove ==
    LET sizes == {Abs(sched.start[shaft]) : shaft \in Shafts}
    IN  CHOOSE n \in sizes : \A other \in sizes : other <= n

\* the step pulses a shaft was given since do_steps was entered
PulsesGiven(shaft) == Abs(pulses[shaft] - sched.base[shaft])

\* C11: with no motor fault, do_steps ends after exactly as many passes as
\* the longest |steps_to_move| queued at its entry; every steps_to_move is
\* then 0 and every shaft was given exactly its |steps_to_move| pulses; from
\* its entry to its return nothing happens but its own passes.
C11_RunsToCompletion ==
    /\ [](pc = "steps" =>
            /\ sched.passes <= LongestMove
            /\ ~step_done(shaft_status) =>
                  /\ sched.passes = LongestMove
                  /\ \A shaft \in Shafts :
                        /\ shaft_status[shaft].steps_to_move = 0
                        /\ PulsesGiven(shaft) = Abs(sched.start[shaft]))
    /\ [][pc = "steps" =>
            IF step_done(shaft_status)
            THEN pc' = "steps" /\ sched'.passes = sched.passes + 1 /\ ret' = ret
            ELSE pc' # "steps" /\ pulses' = pulses /\ ret' = "none"]_vars

\* do_steps is about to return from moving two shafts by different amounts
C11_Witness ==
    /\ pc = "steps" /\ ~step_done(shaft_status)
    /\ sched.passes > 1
    /\ \E a, b \in Shafts :
         /\ sched.start[a] # 0
         /\ Abs(sched.start[a]) < Abs(sched.start[b])

(***************************************************************************)
(* The motor fault.                                                        *)
(***************************************************************************)
\* C12: the fault signal is tested at the entry of do_steps and before every
\* step: once it is raised while do_steps has steps to give, no shaft is
\* given another pulse and the program halts.
C12_NoStepAfterFault ==
    [][(pc = "steps" /\ hw.fault /\ step_done(shaft_status)) =>
          (pulses' = pulses /\ pc' = "halt")]_vars

\* the program stands in the endless loop of assert, stopped by a motor fault
MotorHalt == pc = "halt" /\ halt_msg = "motor failure"

\* no pulse and no write to the EEPROM on the way into the halt after a test
\* of MOTOR_FAULT has failed, and none from then on
HaltIsQuiet ==
    /\ pc = "halt" => (pulses' = pulses /\ eeprom' = eeprom /\ pc' \in {"halt", "off"})
    /\ (pc # "halt" /\ MotorHalt') => eeprom' = eeprom

\* C13 as claimed: a motor fault found during a motion halts the program for
\* good: no pulse follows, nothing is written to the EEPROM, and every
\* shaft_position is the one on record before the interrupted motion.
C13_PositionsAsBefore ==
    /\ []((MotorHalt /\ sched.passes > 0) =>
            \A shaft \in Shafts : shaft_status[shaft].shaft_position = sched.pos[shaft])
    /\ [][HaltIsQuiet]_vars

\* C13: a motor fault found by do_steps halts the program for good: no
\* pulse follows, nothing is written to the EEPROM, and every shaft_position
\* is the one do_steps was entered with: the one on record before the motion
\* under do_treadle and do_calibration, SHAFT_CENTER under center_all_shafts.
C13_FaultHalt ==
    /\ []((MotorHalt /\ ret # "none") =>
            \A shaft \in Shafts :
               shaft_status[shaft].shaft_position =
                  IF ret = "center" THEN SHAFT_CENTER ELSE sched.pos[shaft])
    /\ [][HaltIsQuiet]_vars

\* halted by a fault while centering a shaft that was up or down
C13_Witness ==
    /\ MotorHalt /\ ret = "center" /\ sched.passes > 0
    /\ \E shaft \in Shafts : sched.pos[shaft] # SHAFT_CENTER /\ sched.start[shaft] # 0

(***************************************************************************)
(* Steps are pending only while do_steps runs.                             *)
(***************************************************************************)
\* the program waits for an input event: in loop, in weave, in
\* get_calibration, in an editor or in the load/save menu
AtWait ==
    pc \in {"loop", "weave", "cal_center", "cal_down", "cal_up", "tieups", "sequence", "files"}

\* C14: wherever the program waits for an input event, steps_to_move is 0
\* for every shaft; it is nonzero only from the queuing in do_treadle,
\* center_all_shafts or do_calibration to the end of the do_steps after it.
C14_NoStepsPendingAtRest ==
    AtWait => \A shaft \in Shafts : shaft_status[shaft].steps_to_move = 0

\* weave waits for an event after a treadle has moved two shafts
C14_Witness ==
    /\ pc = "weave" /\ AtWait
    /\ \E a, b \in Shafts :
         /\ shaft_status[a].shaft_position = SHAFT_UP
         /\ shaft_status[b].shaft_position = SHAFT_DOWN

(***************************************************************************)
(* The treadle sequence and its editor.                                    *)
(***************************************************************************)
IsUsed(treadle) == treadle # UNUSED_SEQ

\* the entries of a sequence buffer that are not UNUSED_SEQ, in their order
UsedEntries(ts) == SelectSeq([i \in 1..MAX_SEQUENCE |-> ts[i - 1]], IsUsed)

\* C15: when the sequence editor ends with cleanup_treadle_sequence, slots
\* 0..sequence_size-1 hold exactly the entries that were not UNUSED_SEQ
\* before, in their order, and none of them is UNUSED_SEQ.
C15_CompactionKeepsOrder ==
    [][(pc = "sequence" /\ pc' = "loop") =>
          LET kept == UsedEntries(treadle_sequence)
          IN  /\ sequence_size' = Len(kept)
              /\ \A p \in 0..(sequence_size' - 1) :
                    /\ treadle_sequence'[p] = kept[p + 1]
                    /\ treadle_sequence'[p] # UNUSED_SEQ]_vars

\* the editor has ended on a buffer with a gap before its two entries, which
\* are now compacted
C15_Witness ==
    /\ pc = "loop" /\ ev.op = "other"
    /\ sequence_size = 2
    /\ treadle_sequence[0] = 0 /\ treadle_sequence[1] = 1 /\ treadle_sequence[2] = 1

\* C16: when cleanup_treadle_sequence has returned, sequence_size is the
\* number of entries of the buffer that are not UNUSED_SEQ, and every slot
\* from sequence_size on is UNUSED_SEQ.
C16_TailUnused ==
    [][(pc = "sequence" /\ pc' = "loop") =>
          /\ sequence_size' = Len(UsedEntries(treadle_sequence'))
          /\ \A p \in SeqPos : p >= sequence_size' => treadle_sequence'[p] = UNUSED_SEQ]_vars

\* slot p after an insert at pos, as C17 has it
InsertedAt(ts, pos, p) ==
    IF p < pos THEN ts[p] ELSE IF p = pos THEN UNUSED_SEQ ELSE ts[p - 1]

\* slot p after a delete at pos, as C17 has it
DeletedAt(ts, pos, p) ==
    IF p < pos THEN ts[p] ELSE IF p < MAX_SEQUENCE - 1 THEN ts[p + 1] ELSE UNUSED_SEQ

\* C17: on every buffer the editor can hold and at every row,
\* insert_treadle_sequence keeps the slots below the row, makes the row
\* UNUSED_SEQ, moves every later slot one down and drops the last;
\* delete_treadle_sequence keeps the slots below the row, moves every later
\* slot one up and makes the last UNUSED_SEQ.  So the entries left keep
\* their order: an insert loses at most the entry of the last slot, a delete
\* the entry of its row.
C17_InsertDeleteShift ==
    pc = "sequence" =>
        \A pos \in SeqPos :
            LET ins == insert_treadle_sequence(treadle_sequence, pos)
                del == delete_treadle_sequence(treadle_sequence, pos)
            IN  /\ \A p \in SeqPos :
                      /\ ins[p] = InsertedAt(treadle_sequence, pos, p)
                      /\ del[p] = DeletedAt(treadle_sequence, pos, p)
                /\ UsedEntries(ins) =
                      UsedEntries([treadle_sequence EXCEPT ![MAX_SEQUENCE - 1] = UNUSED_SEQ])
                /\ UsedEntries(del) =
                      UsedEntries([treadle_sequence EXCEPT ![pos] = UNUSED_SEQ])

\* the editor after an insert at row 0 of the tabby sequence
C17_Witness ==
    /\ pc = "sequence" /\ used.edits = 1
    /\ treadle_sequence[0] = UNUSED_SEQ
    /\ treadle_sequence[1] = 0
    /\ treadle_sequence[2] = 1

(***************************************************************************)
(* Calibration.                                                            *)
(***************************************************************************)
\* C18: for a shaft that is calibrated, steps_to_down is minus the signed
\* number of pulses of the down phase and steps_to_up the signed number of
\* pulses of the up phase, and the do_steps after each phase brings the
\* shaft back to the center that was confirmed: its net displacement is 0
\* when the next phase starts and when the next shaft is visited.
C18_CalibrationResult ==
    [][/\ (pc = "cal_down" /\ pc' = "steps") =>
             shaft_status'[cal.shaft].steps_to_down = 0 - pulses[cal.shaft]
       /\ (pc = "cal_up" /\ pc' = "steps") =>
             shaft_status'[cal.shaft].steps_to_up = pulses[cal.shaft]
       /\ (pc = "steps" /\ ret \in {"cal_down", "cal_up"} /\ pc' # "steps") =>
             /\ pulses'[cal.shaft] = 0
             /\ shaft_status'[cal.shaft].steps_to_move = 0
             /\ shaft_status'[cal.shaft].steps_to_down = shaft_status[cal.shaft].steps_to_down
             /\ shaft_status'[cal.shaft].steps_to_up = shaft_status[cal.shaft].steps_to_up]_vars

\* a shaft found one step down and one step up is back at its center after
\* the up phase
C18_Witness ==
    /\ pc = "steps" /\ ret = "cal_up" /\ ~step_done(shaft_status)
    /\ sched.passes = 1
    /\ shaft_status[cal.shaft].steps_to_down = 1
    /\ shaft_status[cal.shaft].steps_to_up = 1
    /\ pulses[cal.shaft] = 0

\* steps_to_down and steps_to_up of every shaft in the config record of ee
StoredCalibration(ee) ==
    Calibration(ShaftStatusFromBytes(read_EEPROM(ee, CONFIG_HDR_SIZE, NUM_SHAFTS * SHAFT_SIZE)))

\* C19: when the center phase of a shaft is answered with skip, the shaft
\* has the steps_to_down and steps_to_up it had before do_calibration was
\* entered.
C19_SkipKeepsCalibration ==
    [][(/\ pc = "cal_center"
        /\ pc' = "weave" \/ (pc' = "cal_center" /\ cal'.shaft # cal.shaft)) =>
          Calibration(shaft_status')[cal.shaft] = cal.prior[cal.shaft]]_vars

\* C20: do_calibration asks only for shafts in use, and when it ends every
\* shaft not in use has the steps_to_down and steps_to_up it had before
\* do_calibration was entered, in shaft_status and in the config record
\* that was written.
C20_UnusedKeepCalibration ==
    /\ [](pc \in {"cal_center", "cal_down", "cal_up"} => using_shaft(Mem, cal.shaft))
    /\ [][((pc = "cal_center" \/ (pc = "steps" /\ ret = "cal_up")) /\ pc' = "weave") =>
            \A shaft \in Shafts :
               ~using_shaft(Mem, shaft) =>
                  /\ Calibration(shaft_status')[shaft] = cal.prior[shaft]
                  /\ StoredCalibration(eeprom')[shaft] = cal.prior[shaft]]_vars

(***************************************************************************)
(* The config record.                                                      *)
(***************************************************************************)
\* the config record in the EEPROM e holds the header h and the shaft array ss
Persisted(e, h, ss) ==
    /\ read_EEPROM(e, 0, CONFIG_HDR_SIZE) = h
    /\ ShaftStatusFromBytes(read_EEPROM(e, CONFIG_HDR_SIZE, NUM_SHAFTS * SHAFT_SIZE)) = ss

\* do_calibration ends, a file has been loaded or saved, or weave ends
ConfigDue ==
    \/ (pc = "cal_center" \/ (pc = "steps" /\ ret = "cal_up")) /\ pc' = "weave"
    \/ pc = "files" /\ pc' = "loop" /\ ev'.op \in {"load", "save"}
    \/ pc = "steps" /\ ret = "center" /\ pc' = "loop"

\* C21: when do_calibration has ended, when a file has been loaded or saved
\* and when weave has ended, the config record in the EEPROM holds
\* config_hdr (lastfilenum and tr_seq_pos in it) and the shaft_status array
\* as they are in memory, before the program waits for the next event.
C21_ConfigPersisted ==
    [][ConfigDue => Persisted(eeprom', config_hdr', shaft_status')]_vars

\* weave has ended at a sequence position and with a calibration that the
\* config record did not hold before
C21_Witness ==
    /\ pc = "loop" /\ wv = WvIdle
    /\ config_hdr[OFF_TR_SEQ_POS] = 1
    /\ config_hdr[OFF_LASTFILENUM] = 1
    /\ shaft_status[0].steps_to_down = 0 /\ shaft_status[0].steps_to_up = 0
    /\ Persisted(eeprom, config_hdr, shaft_status)

(***************************************************************************)
(* The layout of the EEPROM.                                               *)
(***************************************************************************)
\* the addresses of the record of file n
SlotRange(n) == FileLoc(n)..(FileLoc(n) + FILE_SIZE - 1)

\* C22: MAX_FILES is the largest number of file records that fit behind the
\* config record; the record of every file n < MAX_FILES lies inside the
\* EEPROM and shares no byte with the config record or another file; saving
\* file n changes no byte outside the config record and the record of n.
C22_SlotsFit ==
    /\ [](/\ CONFIG_SIZE + MAX_FILES * FILE_SIZE <= EEPROM_SIZE
          /\ EEPROM_SIZE < CONFIG_SIZE + (MAX_FILES + 1) * FILE_SIZE
          /\ Len(eeprom) = EEPROM_SIZE
          /\ \A n \in Slots :
                /\ SlotRange(n) \subseteq Addrs
                /\ SlotRange(n) \cap 0..(CONFIG_SIZE - 1) = {}
                /\ \A k \in Slots : k # n => SlotRange(n) \cap SlotRange(k) = {})
    /\ [][(pc = "files" /\ ev'.op = "save") =>
            \A a \in Addrs :
               eeprom'[a + 1] # eeprom[a + 1] => (a < CONFIG_SIZE \/ a \in SlotRange(ev'.n))]_vars

\* the last file of the EEPROM has been saved
C22_Witness ==
    /\ pc = "loop" /\ ev = Ev("save", MAX_FILES - 1)
    /\ MAX_FILES > 1
    /\ saved[MAX_FILES - 1] # NoPattern

(***************************************************************************)
(* The travel of the shafts.                                               *)
(***************************************************************************)
\* C23: steps_to_down and steps_to_up of every shaft are never negative,
\* whichever way the encoder was turned in a calibration phase before the
\* phase was confirmed.
C23_TravelNotNegative ==
    \A shaft \in Shafts :
        /\ shaft_status[shaft].steps_to_down >= 0
        /\ shaft_status[shaft].steps_to_up >= 0

(***************************************************************************)
(* Weave mode.                                                             *)
(***************************************************************************)
\* C24: every step pulse of weave mode, for a treadle and for the centering
\* when the mode is left, is given while MOTOR_ENB enables the motors, also
\* after the inactivity timeout had disabled them.
C24_PulsesWhileEnabled ==
    [][(pc = "steps" /\ ret \in {"treadle", "center"} /\ pulses' # pulses) => hw.enb]_vars

\* the steps that bring a shaft from where it is on record to its center
TravelToCenter(st) ==
    IF st.shaft_position = SHAFT_UP THEN 0 - st.steps_to_up
    ELSE IF st.shaft_position = SHAFT_DOWN THEN st.steps_to_down
    ELSE 0

\* C25: center_all_shafts queues -steps_to_up for every shaft in use that is
\* UP, steps_to_down for one that is DOWN and 0 for one that is CENTER; when
\* do_steps has run, every shaft in use is CENTER with no steps to move;
\* weave never returns to loop but through center_all_shafts.
C25_CenterAll ==
    [][/\ (pc = "weave" /\ pc' = "steps" /\ ret' = "center") =>
             \A shaft \in Shafts :
                using_shaft(Mem, shaft) =>
                   shaft_status'[shaft].steps_to_move = TravelToCenter(shaft_status[shaft])
       /\ (pc = "steps" /\ ret = "center" /\ pc' # "steps") =>
             \A shaft \in Shafts :
                using_shaft(Mem, shaft) =>
                   /\ shaft_status'[shaft].shaft_position = SHAFT_CENTER
                   /\ shaft_status'[shaft].steps_to_move = 0
                   /\ pulses'[shaft] = 0
       /\ (pc \in {"weave", "steps", "cal_center", "cal_down", "cal_up"} /\ pc' = "loop") =>
             (pc = "steps" /\ ret = "center")]_vars

\* do_steps is about to return to center_all_shafts after it has brought one
\* shaft down and another up to the center
C25_Witness ==
    /\ pc = "steps" /\ ret = "center" /\ ~step_done(shaft_status)
    /\ sched.passes > 0
    /\ \E a, b \in Shafts : sched.pos[a] = SHAFT_UP /\ sched.pos[b] = SHAFT_DOWN

(***************************************************************************)
(* The shafts in use.                                                      *)
(***************************************************************************)
\* C26: using_shaft(shaft) is true exactly when some slot below
\* sequence_size holds a treadle, not UNUSED_SEQ, that is tied to the shaft.
C26_UsingShaft ==
    \A shaft \in Shafts :
        using_shaft(Mem, shaft) <=>
            \E p \in 0..(sequence_size - 1) :
                /\ treadle_sequence[p] # UNUSED_SEQ
                /\ tieup[shaft][treadle_sequence[p]] # 0

\* a pattern whose first entry was removed and which ties shaft 2, not
\* shaft 0, to the treadle left
C26_Witness ==
    /\ pc = "loop" /\ sequence_size = 1
    /\ using_shaft(Mem, 2) /\ using_shaft(Mem, 1) /\ ~using_shaft(Mem, 0)

\* C27: do_treadle and center_all_shafts leave the shaft_position of every
\* shaft that is not in use as it was.
C27_UnusedKeepPosition ==
    [][(\/ pc = "steps" /\ ret = "treadle" /\ pc' = "weave"
        \/ pc = "weave" /\ pc' = "steps" /\ ret' = "center") =>
          \A shaft \in Shafts :
             ~using_shaft(Mem, shaft) =>
                shaft_status'[shaft].shaft_position = shaft_status[shaft].shaft_position]_vars

(***************************************************************************)
(* The position in the treadle sequence.                                   *)
(***************************************************************************)
tr_seq_pos == config_hdr[OFF_TR_SEQ_POS]

\* weave moves the position, and not as eVrotR or the pedal does: it goes
\* backward, by eVrotL or ePBV
GoesBackward ==
    /\ pc = "weave"
    /\ tr_seq_pos' # tr_seq_pos
    /\ tr_seq_pos' # Forward(tr_seq_pos, sequence_size)

\* C28: going backward in weave mode takes the position from p > 0 to p - 1
\* and from 0 to sequence_size - 1.
C28_BackwardWraps ==
    [][GoesBackward =>
          tr_seq_pos' = IF tr_seq_pos > 0 THEN tr_seq_pos - 1 ELSE sequence_size - 1]_vars

\* C29: a pedal press in weave mode, when the position shown has not been
\* moved to yet, keeps tr_seq_pos; any further press takes it one on, from
\* sequence_size - 1 to 0; either way there is a treadle at the position
\* and do_treadle is called for it.
C29_PedalSteps ==
    [][(pc = "weave" /\ ev'.op = "pedal") =>
          /\ tr_seq_pos' = IF wv.before_movement THEN tr_seq_pos
                           ELSE IF tr_seq_pos = sequence_size - 1 THEN 0
                           ELSE tr_seq_pos + 1
          /\ tr_seq_pos' < sequence_size
          /\ pc' = "steps" /\ ret' = "treadle"
          /\ wv'.treadle = treadle_sequence[tr_seq_pos']]_vars

\* C30: while weave waits for an event, and so whenever it goes on to read
\* treadle_sequence[tr_seq_pos], the position is inside the buffer and,
\* when the sequence is not empty, inside the sequence.
C30_PositionInSequence ==
    pc = "weave" =>
        /\ tr_seq_pos < MAX_SEQUENCE
        /\ sequence_size > 0 => tr_seq_pos < sequence_size

\* the direction output a shaft's motor needs to go up (move > 0) or down
NeededDir(shaft, move) == IF move > 0 THEN clockwise[shaft] ELSE 1 - clockwise[shaft]

\* C31: at every step pulse of a shaft MOTOR_DIR is that shaft's clockwise
\* if the shaft is moving up and 1 - clockwise if it is moving down: in each
\* pass of do_steps, whatever the other shafts of the pass do, and at the
\* pulses of get_calibration.
C31_DirectionAtPulse ==
    [][/\ (pc = "steps" /\ sched'.passes = sched.passes + 1) =>
             \A shaft \in Shafts :
                 pulses'[shaft] # pulses[shaft] =>
                     sched'.dir[shaft] = NeededDir(shaft, shaft_status[shaft].steps_to_move)
       /\ (pc \in {"cal_center", "cal_down", "cal_up"} /\ pc' = pc
           /\ cal'.shaft = cal.shaft /\ cal'.steps # cal.steps) =>
             /\ pulses'[cal.shaft] # pulses[cal.shaft]
             /\ hw'.dir = NeededDir(cal.shaft, pulses'[cal.shaft] - pulses[cal.shaft])]_vars

\* a pass of do_steps has just pulsed one shaft upward and another downward
\* with different levels of MOTOR_DIR
C31_Witness ==
    /\ pc = "steps" /\ sched.passes > 0
    /\ \E a, b \in Shafts :
         /\ sched.start[a] > 0 /\ sched.start[b] < 0
         /\ sched.dir[a] # -1 /\ sched.dir[b] # -1
         /\ sched.dir[a] # sched.dir[b]

\* the config record of ee has the tag "cfg"
ConfigTagged(ee) == CfgId(read_EEPROM(ee, 0, CONFIG_HDR_SIZE)) = CFG_ID

\* what read_file_hdr and read_file_data make of slot 0 of ee
LoadedFromSlot0(ee) == read_file_data(read_file_hdr(PowerOnMemory(ee), 0), 0)

\* C32: a power-up that finds a config record without the tag "cfg" does not
\* halt; it leaves a config record that read_config accepts and that holds
\* every shaft at CENTER with NOMINAL_STEPS either way, and in slot 0 a
\* valid record of the plain weave, and the plain weave is the live pattern.
C32_BadConfigRecovered ==
    [][(pc = "off" /\ pc' # "off" /\ ~ConfigTagged(eeprom)) =>
          /\ pc' = "loop"
          /\ ConfigTagged(eeprom')
          /\ LET later == read_config(PowerOnMemory(eeprom'))
             IN  /\ later.halt = ""
                 /\ later.ee = eeprom'
                 /\ later.ss = InitShaftStatus
          /\ FhId(read_EEPROM(eeprom', FileLoc(0), FILE_HDR_SIZE)) = FIL_ID
          /\ LET file == LoadedFromSlot0(eeprom')
             IN  /\ file.halt = ""
                 /\ file.tu = InitTieup
                 /\ file.ts = TabbySequence /\ file.sz = 2
          /\ tieup' = InitTieup
          /\ treadle_sequence' = TabbySequence /\ sequence_size' = 2]_vars

\* a power-up has replaced a config record that was altered while the power
\* was off: the store holds the nominal calibration and the plain weave is live
C32_Witness ==
    /\ pc = "loop" /\ ev.op = "boot"
    /\ used.corrupt = 1 /\ used.saves = 0 /\ altered = -1
    /\ ConfigTagged(eeprom)
    /\ eeprom[OFF_TR_SEQ_POS] = 0
    /\ StoredCalibration(eeprom) = Calibration(InitShaftStatus)
    /\ tieup = InitTieup /\ treadle_sequence = TabbySequence /\ sequence_size = 2

\* do_treadle, do_steps, center_all_shafts or do_calibration is called or
\* goes on: a step of weave mode, but for the power being cut
MotionStep ==
    /\ \/ pc \in {"weave", "cal_center", "cal_down", "cal_up", "steps"}
       \/ pc = "loop" /\ pc' \in {"weave", "cal_center"}
    /\ pc' # "off"

\* C33: do_treadle, do_steps, center_all_shafts and do_calibration change no
\* entry of tieup, no slot of treadle_sequence, and not sequence_size.
C33_PatternReadOnly ==
    [][MotionStep =>
          /\ tieup' = tieup
          /\ treadle_sequence' = treadle_sequence
          /\ sequence_size' = sequence_size]_vars

\* weave is left after a calibration of shaft 1 and a treadle: the shafts are
\* on their way to the center, and the pattern is the plain weave still
C33_Witness ==
    /\ pc = "steps" /\ ret = "center" /\ sched.passes > 0
    /\ wv.last # -1
    /\ shaft_status[1].steps_to_down = 1
    /\ tieup = InitTieup /\ treadle_sequence = TabbySequence /\ sequence_size = 2

\* shaft_status as the config record of ee holds it
StoredShaftStatus(ee) ==
    ShaftStatusFromBytes(read_EEPROM(ee, CONFIG_HDR_SIZE, NUM_SHAFTS * SHAFT_SIZE))

\* C34: a config record in the store, which only write_config writes, holds
\* every shaft at SHAFT_CENTER with steps_to_move 0.
C34_StoredShaftsCentered ==
    ConfigTagged(eeprom) =>
        \A shaft \in Shafts :
            /\ StoredShaftStatus(eeprom)[shaft].shaft_position = SHAFT_CENTER
            /\ StoredShaftStatus(eeprom)[shaft].steps_to_move = 0

\* weave has been left, and its config record written, after the pedal had
\* taken the sequence to position 1
C34_Witness ==
    /\ pc = "loop" /\ ev.op = "other"
    /\ ConfigTagged(eeprom)
    /\ eeprom[OFF_TR_SEQ_POS] = 1
    /\ Persisted(eeprom, config_hdr, shaft_status)
    /\ \A shaft \in Shafts : shaft_status[shaft].shaft_position = SHAFT_CENTER

\* C35: while a file name is edited, file_hdr.filename is read and written
\* at indices 0..MAX_FILENAME only: the cursor stays in the buffer and
\* nothing has been written past it.
C35_NameIndexInBuffer ==
    pc = "files" =>
        /\ ls.charnum \in 0..MAX_FILENAME
        /\ ~oob

\* C36: on the buffer cleanup_treadle_sequence leaves when the sequence
\* editor ends, cleanup_treadle_sequence run once more changes neither the
\* buffer nor sequence_size.
C36_CompactionIdempotent ==
    [][(pc = "sequence" /\ pc' = "loop") =>
          LET again == CompactFrom(treadle_sequence', 0, 0)
          IN  /\ again[1] = treadle_sequence'
              /\ again[2] = sequence_size']_vars

=============================================================================
